---- MODULE Spec2Model ----
(***************************************************************************)
(* Verification model of the screen_reader repository.                     *)
(*                                                                         *)
(*   SpecResolve : state_machine.resolve_state over the rule table of      *)
(*                 state_rules.py, applied to every detector result map.   *)
(*   SpecPure    : resolve_state called twice on the same result map, the  *)
(*                 App's bookkeeping fields changing in between.           *)
(*   SpecOcr     : main.run_detector on an OCR detector.                   *)
(*   SpecImage   : main.run_detector on an image detector.                 *)
(*   SpecBatch   : main.run_detectors over a registry of detector specs.   *)
(*   SpecBank    : TemplateBank.get / clear called by one thread.          *)
(*   SpecBankThreads : TemplateBank.get step by step, clear() interleaved. *)
(*   SpecWindow  : consecutive invocations of window_manager.ensure_window.*)
(*   SpecThreads : App.start / App.stop and the threads of _scan_loop.     *)
(***************************************************************************)
EXTENDS Integers, Sequences, FiniteSets, TLC

VARIABLES
    results,      \* detector result map: name -> DetectResult (a Python dict)
    rs_pc,        \* position of the caller of resolve_state: "call" | "ret"
    rs_ret,       \* value returned by resolve_state
    rs_prev,      \* value returned by the previous call on the same map ("" if none)
    last_state,         \* App.last_state
    state_start_time,   \* App.state_start_time
    last_click_time,    \* App.last_click_time
    det_name,     \* run_detector: argument name
    det_cfg,      \* run_detector: argument cfg (one entry of CONFIG.detectors)
    hits,         \* run_detector: argument hits, List[OcrHit]
    frame,        \* the captured frame, as the matching backend's answer per template
    files,        \* template files on disk: path -> Optional decoded image
    cache,        \* TemplateBank._cache
    det_pc,       \* position of the caller of run_detector: "idle" | "call" | "ret"
    det_out,      \* outcome of run_detector: DetectResult or raised exception
    detector_names,   \* run_detectors: argument detector_names
    detectors_dict,   \* run_detectors: argument detectors_dict (CONFIG.detectors)
    out,          \* run_detectors: the dict being built
    rd_i,         \* run_detectors: position of the for loop in detector_names
    rd_pc,        \* run_detectors: "idle" | "loop" | "ret" | "raised"
    rd_exc,       \* run_detectors: the exception that left it ("" if none)
    bk_last,      \* TemplateBank: outcome of the last completed get / clear
    bk_pc,        \* TemplateBank.get, per thread: position in the method
    bk_path,      \* TemplateBank.get, per thread: argument path
    bk_img,       \* TemplateBank.get, per thread: local img
    bk_ret,       \* TemplateBank.get, per thread: returned image or exception
    attempts,     \* history: cv2.imread calls per path
    decodes,      \* history: successful decodes per path since the last clear()
    returned,     \* history: objects get(path) returned since the last clear()
    gets,         \* history: get(path) calls that returned since the last clear()
    calls,        \* history: number of get / clear calls made
    next_obj,     \* identity of the next array object cv2.imread creates
    win,          \* the desktop's target window: [present, rect, border, fg]
    monitors,     \* monitor rectangles, in MSS / EnumDisplayMonitors order
    ew_cfg,       \* ensure_window: argument cfg (EnforceConfig)
    ew_pc,        \* ensure_window: "idle" | "step1" .. "step4" | "final"
    ew_cur,       \* ensure_window: the invocation in progress
    ew_hist,      \* the invocations of ensure_window made so far, in order
    is_running,   \* App.is_running (tk.BooleanVar)
    stop_event,   \* App._stop_event (threading.Event): is it set
    worker_thread,    \* App._worker_thread: the thread start() made last (0: None)
    th_pc,        \* the threads the App started, in creation order: position
    th_kind,      \* per thread: "loop" (_scan_loop) | "single" (single_scan)
    th_hwnd,      \* per thread: what the cycle's search for the window gave
    ui_last,      \* history: the last UI callback, the fields before and after
    stop_seen,    \* history: the workers that were alive when stop() was issued
    pr_args,      \* ensure_process_running: arguments exe_path, launch_enabled
    pr_env,       \* the system's answers to what ensure_process_running asks
    pr_pc,        \* ensure_process_running: "idle" | "call" | "launch" | "wait" | "ret"
    pr_ret,       \* ensure_process_running: the returned value
    pr_popen,     \* history: subprocess.Popen calls made
    pr_started,   \* history: subprocess.Popen calls that started the executable
    pr_log,       \* the messages passed to log_fn
    ld_data,      \* the content of config.yaml, as yaml.safe_load returns it
    ld_files,     \* the template files that exist on disk
    ld_pc,        \* startup: "idle" | "load" | "validate" | "accepted" | "rejected"
    CONFIG,       \* main.CONFIG: None until load_config has returned
    cy_pc,        \* _scan_once past run_detectors: position in the method
    cy_n,         \* scan cycles that got past run_detectors so far
    cy_actions,   \* history: the click_point / scroll_view calls of the cycle
    cy_exc,       \* the exception the cycle's try block raised ("" if none)
    current_state,    \* App.current_state (tk.StringVar)
    public_server,    \* App.public_server (tk.BooleanVar)
    private_server,   \* App.private_server (tk.BooleanVar)
    tk_writes,    \* history: the Tk variables set from a scanning thread
    now,          \* time.time(), in seconds since App.__init__
    lp_pc,        \* _scan_loop of one worker: position in the method
    lp_n,         \* _scan_loop: iterations begun so far
    lp_cfg,       \* CONFIG.min_sleep_s and refresh_ms, both in milliseconds
    lp_clock,     \* time.time() in milliseconds since the worker started
    lp_t0,        \* _scan_loop: local t0 (milliseconds)
    lp_dt,        \* _scan_loop: local dt (milliseconds)
    lp_sleep      \* _scan_loop: local sleep_s (milliseconds)

resolve_vars == <<results, rs_pc, rs_ret, rs_prev>>
app_vars == <<last_state, state_start_time, last_click_time>>
detect_vars == <<det_name, det_cfg, hits, frame, files, cache, det_pc, det_out>>
batch_vars == <<detector_names, detectors_dict, out, rd_i, rd_pc, rd_exc>>
\* the variables of the parts modelled after the detector engine
bank_vars == <<bk_last, bk_pc, bk_path, bk_img, bk_ret, attempts, decodes,
               returned, gets, calls, next_obj>>
window_vars == <<win, monitors, ew_cfg, ew_pc, ew_cur, ew_hist>>
thread_vars == <<is_running, stop_event, worker_thread, th_pc, th_kind, th_hwnd,
                 ui_last, stop_seen>>
process_vars == <<pr_args, pr_env, pr_pc, pr_ret, pr_popen, pr_started, pr_log>>
\* the variables of the parts modelled after the scanning threads
load_vars == <<ld_data, ld_files, ld_pc, CONFIG>>
cycle_vars == <<cy_pc, cy_n, cy_actions, cy_exc, current_state, public_server,
                private_server, tk_writes, now>>
loop_vars == <<lp_pc, lp_n, lp_cfg, lp_clock, lp_t0, lp_dt, lp_sleep>>
further_vars == <<process_vars, load_vars, cycle_vars, loop_vars>>
other_vars == <<batch_vars, bank_vars, window_vars, thread_vars, further_vars>>
vars == <<resolve_vars, app_vars, detect_vars, other_vars>>

(***************************************************************************)
(* states.py                                                               *)
(***************************************************************************)
STATE_UNKNOWN == "UNKNOWN"
STATE_DEAD == "DEAD"

(***************************************************************************)
(* state_rules.py : the rule table, in declaration order                   *)
(***************************************************************************)
RULE_DEAD ==
    [state |-> "DEAD",
     require_all |-> {"TO_LOBBY_BUTTON"},
     require_none |-> {},
     priority |-> 100]

RULE_IN_RUN ==
    [state |-> "IN_RUN",
     require_all |-> {"END_RUN_BUTTON", "AUTO_GREEN_ICON"},
     require_none |-> {"TO_LOBBY_BUTTON", "SWITCH_FISH_ICON", "LEAVE_BUTTON",
                     "LEAVE_BUTTON_CONFIRM"},
     priority |-> 80]

RULE_MENU ==
    [state |-> "MENU",
     require_all |-> {"LEAVE_BUTTON"},
     require_none |-> {},
     priority |-> 60]

RULE_NET_REVEAL ==
    [state |-> "NET_REVEAL",
     require_all |-> {},
     require_none |-> {"TO_LOBBY_BUTTON", "END_RUN_BUTTON", "AUTO_GREEN_ICON"},
     priority |-> 50]

RULE_STUCK_IN_LOBBY ==
    [state |-> "STUCK_IN_LOBBY",
     require_all |-> {"SWITCH_FISH_ICON", "END_RUN_BUTTON"},
     require_none |-> {"TO_LOBBY_BUTTON"},
     priority |-> 40]

RULE_MENU_CONFIRMATION ==
    [state |-> "MENU_CONFIRMATION",
     require_all |-> {"LEAVE_BUTTON_CONFIRM"},
     require_none |-> {},
     priority |-> 30]

RULE_GAME_CLOSED ==
    [state |-> "GAME_CLOSED",
     require_all |-> {},
     require_none |-> {"TO_LOBBY_BUTTON", "END_RUN_BUTTON", "AUTO_GREEN_ICON",
                     "SWITCH_FISH_ICON", "LEAVE_BUTTON", "LEAVE_BUTTON_CONFIRM"},
     priority |-> 20]

RULE_DISCONNECTED ==
    [state |-> "DISCONNECTED",
     require_all |-> {"DISCONNECTED_ICON"},
     require_none |-> {},
     priority |-> 90]

RULE_HOME_SCREEN ==
    [state |-> "HOME_SCREEN",
     require_all |-> {"HOME_SCREEN_ICON"},
     require_none |-> {"TO_LOBBY_BUTTON", "END_RUN_BUTTON", "AUTO_GREEN_ICON",
                     "SWITCH_FISH_ICON", "LEAVE_BUTTON", "LEAVE_BUTTON_CONFIRM"},
     priority |-> 70]

RULE_FISH_MENU ==
    [state |-> "FISH_MENU",
     require_all |-> {"FISH_MENU_SCREEN"},
     require_none |-> {"END_RUN_BUTTON", "TO_LOBBY_BUTTON"},
     priority |-> 65]

RULE_SERVER_MENU ==
    [state |-> "SERVER_MENU",
     require_all |-> {"SERVER_MENU"},
     require_none |-> {"END_RUN_BUTTON", "TO_LOBBY_BUTTON", "SWITCH_FISH_ICON"},
     priority |-> 55]

RULE_AUTO_STOPPED ==
    [state |-> "AUTO_STOPPED",
     require_all |-> {"AUTO_RED_ICON", "END_RUN_BUTTON"},
     require_none |-> {"TO_LOBBY_BUTTON", "LEAVE_BUTTON", "LEAVE_BUTTON_CONFIRM"},
     priority |-> 75]

RULE_LEAVE_MENU ==
    [state |-> "LEAVE_MENU",
     require_all |-> {"LEAVE_BUTTON_CONFIRM"},
     require_none |-> {},
     priority |-> 35]

RULE_FISH_MENU_SCROLLED_DOWN ==
    [state |-> "FISH_MENU_SCROLLED_DOWN",
     require_all |-> {"FISH_MENU_SCROLLED_DOWN"},
     require_none |-> {"END_RUN_BUTTON", "TO_LOBBY_BUTTON"},
     priority |-> 45]

RULE_PRIVATE_SERVERS_MENU ==
    [state |-> "PRIVATE_SERVERS_MENU",
     require_all |-> {"PRIVATE_SERVERS"},
     require_none |-> {},
     priority |-> 50]

\* mutant: the GAME_CLOSED rule is missing from the table
STATE_RULES_without_GAME_CLOSED ==
    << RULE_DEAD, RULE_IN_RUN, RULE_MENU, RULE_NET_REVEAL,
       RULE_STUCK_IN_LOBBY, RULE_MENU_CONFIRMATION, RULE_DISCONNECTED,
       RULE_HOME_SCREEN, RULE_FISH_MENU, RULE_SERVER_MENU,
       RULE_AUTO_STOPPED, RULE_LEAVE_MENU, RULE_FISH_MENU_SCROLLED_DOWN,
       RULE_PRIVATE_SERVERS_MENU >>

\* STATE_RULES: List[Dict], in declaration order
STATE_RULES ==
    << RULE_DEAD, RULE_IN_RUN, RULE_MENU, RULE_NET_REVEAL,
       RULE_STUCK_IN_LOBBY, RULE_MENU_CONFIRMATION, RULE_GAME_CLOSED,
       RULE_DISCONNECTED, RULE_HOME_SCREEN, RULE_FISH_MENU,
       RULE_SERVER_MENU, RULE_AUTO_STOPPED, RULE_LEAVE_MENU,
       RULE_FISH_MENU_SCROLLED_DOWN, RULE_PRIVATE_SERVERS_MENU >>

\* every detector name a rule refers to
RuleDetectorNames ==
    UNION { STATE_RULES[i].require_all \cup STATE_RULES[i].require_none :
            i \in 1..Len(STATE_RULES) }

(***************************************************************************)
(* state_machine.py : resolve_state                                        *)
(***************************************************************************)

\* sorted(..., key=priority, reverse=True) is stable: a rule is placed after
\* every rule already placed whose priority is >= its own.
RECURSIVE insert_desc(_, _)
insert_desc(sortedSeq, r) ==
    IF sortedSeq = << >> THEN << r >>
    ELSE IF Head(sortedSeq).priority >= r.priority
         THEN << Head(sortedSeq) >> \o insert_desc(Tail(sortedSeq), r)
         ELSE << r >> \o sortedSeq

\* mutant: equal priorities are placed before the rules already there
RECURSIVE insert_desc_unstable(_, _)
insert_desc_unstable(sortedSeq, r) ==
    IF sortedSeq = << >> THEN << r >>
    ELSE IF Head(sortedSeq).priority > r.priority
         THEN << Head(sortedSeq) >> \o insert_desc_unstable(Tail(sortedSeq), r)
         ELSE << r >> \o sortedSeq

RECURSIVE sorted_from(_, _, _)
sorted_from(seq, i, acc) ==
    IF i > Len(seq) THEN acc
    ELSE sorted_from(seq, i + 1, insert_desc(acc, seq[i]))

RECURSIVE sorted_from_unstable(_, _, _)
sorted_from_unstable(seq, i, acc) ==
    IF i > Len(seq) THEN acc
    ELSE sorted_from_unstable(seq, i + 1, insert_desc_unstable(acc, seq[i]))

\* mutant: reverse=True forgotten, ascending priority
RECURSIVE sorted_ascending(_)
sorted_ascending(seq) ==
    IF seq = << >> THEN << >>
    ELSE LET lo == CHOOSE i \in 1..Len(seq) :
                      \A j \in 1..Len(seq) :
                          \/ seq[i].priority < seq[j].priority
                          \/ (seq[i].priority = seq[j].priority /\ i <= j)
         IN << seq[lo] >> \o
            sorted_ascending([k \in 1..(Len(seq) - 1) |->
                                 IF k < lo THEN seq[k] ELSE seq[k + 1]])

\* mutant: ties between equal priorities come out in reverse declaration order
sorted_unstable(seq) == sorted_from_unstable(seq, 1, << >>)

\* rules = sorted(STATE_RULES, key=lambda r: r.get("priority", 0), reverse=True)
sorted(seq) == sorted_from(seq, 1, << >>)

\* mutant: a name missing from the map fails require_none
ok_none_absent_fails(res, require_none) ==
    \A name \in require_none : name \in DOMAIN res /\ ~res[name].found

\* mutant: an empty require_all is not satisfied
ok_all_nonempty(res, require_all) ==
    /\ require_all # {}
    /\ \A name \in require_all : name \in DOMAIN res /\ res[name].found

\* ok_all = all(results.get(name) and results[name].found for name in require_all)
ok_all(res, require_all) ==
    \A name \in require_all : name \in DOMAIN res /\ res[name].found

\* ok_none = all((not results.get(name)) or (not results[name].found) ...)
ok_none(res, require_none) ==
    \A name \in require_none : (name \notin DOMAIN res) \/ ~res[name].found

\* mutant: the loop keeps going after a match, the last matching rule wins
RECURSIVE rule_loop_last_match(_, _, _)
rule_loop_last_match(rules, i, res) ==
    IF i > Len(rules) THEN STATE_UNKNOWN
    ELSE LET rest == rule_loop_last_match(rules, i + 1, res)
         IN IF /\ ok_all(res, rules[i].require_all)
               /\ ok_none(res, rules[i].require_none)
               /\ rest = STATE_UNKNOWN
            THEN rules[i].state
            ELSE rest

\* for rule in rules: ... if ok_all and ok_none: return state
\* return STATE_UNKNOWN
RECURSIVE rule_loop(_, _, _)
rule_loop(rules, i, res) ==
    IF i > Len(rules) THEN STATE_UNKNOWN
    ELSE IF /\ ok_all(res, rules[i].require_all)
            /\ ok_none(res, rules[i].require_none)
         THEN rules[i].state
         ELSE rule_loop(rules, i + 1, res)

\* the rule table in evaluation order
rules == sorted(STATE_RULES)

\* mutant: hysteresis, the previous state is kept while its rule still holds
resolve_state_sticky(res) ==
    IF \E i \in 1..Len(rules) :
           /\ rules[i].state = last_state
           /\ ok_all(res, rules[i].require_all)
           /\ ok_none(res, rules[i].require_none)
    THEN last_state
    ELSE rule_loop(rules, 1, res)

resolve_state(res) == rule_loop(rules, 1, res)

(***************************************************************************)
(* main.py : Detector Engine                                               *)
(*                                                                         *)
(* Texts are sequences of characters, OCR confidences are integers,        *)
(* template-match scores are hundredths (-100..100 stands for -1.0..1.0).  *)
(* A dataclass field left at its default None is omitted from the record.  *)
(* An Optional value is a sequence: << >> is None, << v >> is the value v. *)
(***************************************************************************)

\* str.lower() on the characters the model uses
lower_char(c) == IF c = "A" THEN "a" ELSE IF c = "B" THEN "b" ELSE c

\* str.lower()
lower(s) == [k \in 1..Len(s) |-> lower_char(s[k])]

\* sub in s (Python substring test)
str_in(sub, s) ==
    \E k \in 0..(Len(s) - Len(sub)) : SubSeq(s, k + 1, k + Len(sub)) = sub

\* sorted(hits, key=lambda x: x.conf, reverse=True), stable
RECURSIVE insert_hit_desc(_, _)
insert_hit_desc(sortedSeq, h) ==
    IF sortedSeq = << >> THEN << h >>
    ELSE IF Head(sortedSeq).conf >= h.conf
         THEN << Head(sortedSeq) >> \o insert_hit_desc(Tail(sortedSeq), h)
         ELSE << h >> \o sortedSeq

RECURSIVE sorted_hits_from(_, _, _)
sorted_hits_from(seq, i, acc) ==
    IF i > Len(seq) THEN acc
    ELSE sorted_hits_from(seq, i + 1, insert_hit_desc(acc, seq[i]))

\* mutant: the hits are scanned in input order, the first acceptable hit wins
sorted_hits_unsorted(seq) == seq

sorted_hits(seq) == sorted_hits_from(seq, 1, << >>)

\* the loop of _first_ocr_hit_containing over the sorted hits
RECURSIVE first_hit_loop(_, _, _, _)
first_hit_loop(hs, i, token_l, min_conf) ==
    IF i > Len(hs) THEN << >>
    ELSE IF hs[i].conf < min_conf
         THEN first_hit_loop(hs, i + 1, token_l, min_conf)
         ELSE IF str_in(token_l, lower(hs[i].text))
              THEN << hs[i] >>
              ELSE first_hit_loop(hs, i + 1, token_l, min_conf)

\* _first_ocr_hit_containing(hits, token, min_conf) -> Optional[OcrHit]
first_ocr_hit_containing(hs, token, min_conf) ==
    first_hit_loop(sorted_hits(hs), 1, lower(token), min_conf)

\* mutant: get decodes on every call and stores nothing
bank_get_no_store(bank, fs, path) ==
    IF fs[path] = << >>
    THEN [raised |-> TRUE, cache |-> bank]
    ELSE [raised |-> FALSE, img |-> fs[path][1], cache |-> bank]

\* mutant: a failed decode is remembered and the path is not decoded again
bank_get_caches_failure(bank, fs, path) ==
    IF path \in DOMAIN bank
    THEN IF bank[path] = "unreadable"
         THEN [raised |-> TRUE, cache |-> bank]
         ELSE [raised |-> FALSE, img |-> bank[path], cache |-> bank]
    ELSE IF fs[path] = << >>
         THEN [raised |-> TRUE, cache |-> (path :> "unreadable") @@ bank]
         ELSE [raised |-> FALSE, img |-> fs[path][1],
               cache |-> bank @@ (path :> fs[path][1])]

\* TemplateBank.get(path): outcome and bank after the call
\*   fs    : path -> << >> (cv2.imread returns None) or << image >>
\*   bank  : TemplateBank._cache
bank_get(bank, fs, path) ==
    IF path \in DOMAIN bank
    THEN [raised |-> FALSE, img |-> bank[path], cache |-> bank]
    ELSE IF fs[path] = << >>
         THEN [raised |-> TRUE, cache |-> bank]
         ELSE [raised |-> FALSE, img |-> fs[path][1],
               cache |-> bank @@ (path :> fs[path][1])]

\* match_template_once(frame_bgr, templ_bgr) -> (max_score, (x, y)); the
\* matching backend is external, fr gives its answer for each template:
\* [score, x, y], or [error] when cv2.matchTemplate raises
match_template_once(fr, path) == fr[path]

\* mutant: a later candidate with an equal score replaces the best one
update_best_ties_last(st, path, templ, m) ==
    IF m.score >= st.best_score
    THEN [st EXCEPT !.best_score = m.score,
                    !.best_path = << path >>,
                    !.best_bbox = << << m.x, m.y, templ.w, templ.h >> >>]
    ELSE st

\* if score > best_score: best_score, best_path, best_bbox = ...
update_best(st, path, templ, m) ==
    IF m.score > st.best_score
    THEN [st EXCEPT !.best_score = m.score,
                    !.best_path = << path >>,
                    !.best_bbox = << << m.x, m.y, templ.w, templ.h >> >>]
    ELSE st

\* for path in template_paths: templ = bank.get(path); score, (x, y) = ...
RECURSIVE template_loop(_, _, _, _, _)
template_loop(template_paths, i, fr, fs, st) ==
    IF i > Len(template_paths) THEN st
    ELSE LET g == bank_get(st.cache, fs, template_paths[i])
             m == match_template_once(fr, template_paths[i])
         IN IF g.raised
            THEN [st EXCEPT !.raised = TRUE, !.error = "FileNotFoundError"]
            ELSE IF "error" \in DOMAIN m
                 THEN [st EXCEPT !.raised = TRUE, !.error = m.error,
                                 !.cache = g.cache]
                 ELSE template_loop(template_paths, i + 1, fr, fs,
                          update_best([st EXCEPT !.cache = g.cache],
                                      template_paths[i], g.img, m))

\* mutant: a score equal to the threshold is rejected
threshold_check_strict(st, threshold) ==
    IF st.best_score > threshold /\ st.best_bbox # << >>
    THEN [bbox |-> st.best_bbox,
          extra |-> << [matched_path |-> st.best_path[1], score |-> st.best_score] >>]
    ELSE [bbox |-> << >>, extra |-> << >>]

\* if best_score >= threshold and best_bbox is not None: return bbox, extra
\* return None, None
threshold_check(st, threshold) ==
    IF st.best_score >= threshold /\ st.best_bbox # << >>
    THEN [bbox |-> st.best_bbox,
          extra |-> << [matched_path |-> st.best_path[1], score |-> st.best_score] >>]
    ELSE [bbox |-> << >>, extra |-> << >>]

\* find_any_template_in_frame: [raised, error, cache, bbox, extra]
find_any_template_in_frame(fr, template_paths, bank, fs, threshold) ==
    LET st == template_loop(template_paths, 1, fr, fs,
                  [best_score |-> -100, best_bbox |-> << >>, best_path |-> << >>,
                   cache |-> bank, raised |-> FALSE, error |-> ""])
    IN IF st.raised
       THEN [raised |-> TRUE, error |-> st.error, cache |-> st.cache]
       ELSE [raised |-> FALSE, cache |-> st.cache] @@ threshold_check(st, threshold)

\* cfg.get("min_conf", 0)
cfg_min_conf(cfg) == IF "min_conf" \in DOMAIN cfg THEN cfg.min_conf ELSE 0

\* float(cfg.get("confidence", 0.85))
cfg_threshold(cfg) == IF "confidence" \in DOMAIN cfg THEN cfg.confidence ELSE 85

\* run_detector, kind == "ocr" (cfg has a token)
run_detector_ocr(name, cfg, hs) ==
    LET h == first_ocr_hit_containing(hs, cfg.token, cfg_min_conf(cfg))
    IN IF h = << >>
       THEN [name |-> name, kind |-> "ocr", found |-> FALSE]
       ELSE [name |-> name, kind |-> "ocr", found |-> TRUE,
             bbox |-> h[1].bbox, text |-> h[1].text, conf |-> h[1].conf,
             extra |-> [token |-> cfg.token, min_conf |-> cfg_min_conf(cfg)]]

\* mutant: no try around find_any_template_in_frame, its exception propagates
run_detector_image_no_try(name, cfg, fr, bank, fs) ==
    IF ~("paths" \in DOMAIN cfg /\ cfg.paths # << >>) /\ "path" \notin DOMAIN cfg
    THEN [raised |-> "KeyError", cache |-> bank]
    ELSE LET paths == IF "paths" \in DOMAIN cfg /\ cfg.paths # << >>
                      THEN cfg.paths ELSE << cfg.path >>
             r == find_any_template_in_frame(fr, paths, bank, fs, cfg_threshold(cfg))
         IN IF r.raised
            THEN [raised |-> r.error, cache |-> r.cache]
            ELSE IF r.bbox = << >>
                 THEN [raised |-> "", cache |-> r.cache,
                       result |-> [name |-> name, kind |-> "image", found |-> FALSE]]
                 ELSE [raised |-> "", cache |-> r.cache,
                       result |-> [name |-> name, kind |-> "image", found |-> TRUE,
                                   bbox |-> r.bbox[1], extra |-> r.extra[1]]]

\* run_detector, kind == "image": the result and the bank it leaves
run_detector_image(name, cfg, fr, bank, fs) ==
    IF ~("paths" \in DOMAIN cfg /\ cfg.paths # << >>) /\ "path" \notin DOMAIN cfg
    THEN [raised |-> "KeyError", cache |-> bank]
    ELSE LET paths == IF "paths" \in DOMAIN cfg /\ cfg.paths # << >>
                      THEN cfg.paths ELSE << cfg.path >>
             r == find_any_template_in_frame(fr, paths, bank, fs, cfg_threshold(cfg))
         IN IF r.raised
            THEN [raised |-> "", cache |-> r.cache,
                  result |-> [name |-> name, kind |-> "image", found |-> FALSE,
                              extra |-> [error |-> r.error]]]
            ELSE IF r.bbox = << >>
                 THEN [raised |-> "", cache |-> r.cache,
                       result |-> [name |-> name, kind |-> "image", found |-> FALSE]]
                 ELSE [raised |-> "", cache |-> r.cache,
                       result |-> [name |-> name, kind |-> "image", found |-> TRUE,
                                   bbox |-> r.bbox[1], extra |-> r.extra[1]]]

\* run_detector(name, cfg, hits, frame_bgr, bank)
run_detector(name, cfg, hs, fr, bank, fs) ==
    IF "kind" \notin DOMAIN cfg
    THEN [raised |-> "KeyError", cache |-> bank]
    ELSE IF cfg.kind = "ocr"
         THEN IF "token" \notin DOMAIN cfg
              THEN [raised |-> "KeyError", cache |-> bank]
              ELSE [raised |-> "", cache |-> bank,
                    result |-> run_detector_ocr(name, cfg, hs)]
         ELSE IF cfg.kind = "image"
              THEN run_detector_image(name, cfg, fr, bank, fs)
              ELSE [raised |-> "ValueError", cache |-> bank]

(***************************************************************************)
(* SpecResolve: resolve_state called on an arbitrary result map            *)
(***************************************************************************)

\* what resolve_state reads of a DetectResult
DetectResultSet == [found : BOOLEAN]

\* every dict from a subset of the rule-referenced names to a DetectResult
ResultMaps == UNION { [K -> DetectResultSet] : K \in SUBSET RuleDetectorNames }

\* run_detectors is not being called
BatchIdle ==
    /\ detector_names = << >>
    /\ detectors_dict = << >>
    /\ out = << >>
    /\ rd_i = 0
    /\ rd_pc = "idle"
    /\ rd_exc = ""

\* no thread is using the TemplateBank
BankIdle ==
    /\ bk_last = << >>
    /\ bk_pc = << >>
    /\ bk_path = << >>
    /\ bk_img = << >>
    /\ bk_ret = << >>
    /\ attempts = << >>
    /\ decodes = << >>
    /\ returned = << >>
    /\ gets = << >>
    /\ calls = 0
    /\ next_obj = 0

\* ensure_window is not being called
WindowIdle ==
    /\ win = << >>
    /\ monitors = << >>
    /\ ew_cfg = << >>
    /\ ew_pc = "idle"
    /\ ew_cur = << >>
    /\ ew_hist = << >>

\* App.__init__: no worker, is_running False, a fresh (clear) Event
ThreadsIdle ==
    /\ is_running = FALSE
    /\ stop_event = FALSE
    /\ worker_thread = 0
    /\ th_pc = << >>
    /\ th_kind = << >>
    /\ th_hwnd = << >>
    /\ ui_last = << >>
    /\ stop_seen = {}

\* ensure_process_running is not being called
ProcessIdle ==
    /\ pr_args = << >>
    /\ pr_env = << >>
    /\ pr_pc = "idle"
    /\ pr_ret = << >>
    /\ pr_popen = 0
    /\ pr_started = 0
    /\ pr_log = << >>

\* the program is not being started
LoadIdle ==
    /\ ld_data = << >>
    /\ ld_files = {}
    /\ ld_pc = "idle"
    /\ CONFIG = << >>

\* App.__init__: current_state "UNKNOWN", public_server True, private_server
\* False; no scan cycle has got past run_detectors
ScanIdle ==
    /\ cy_pc = "idle"
    /\ cy_n = 0
    /\ cy_actions = << >>
    /\ cy_exc = ""
    /\ current_state = "UNKNOWN"
    /\ public_server = TRUE
    /\ private_server = FALSE
    /\ tk_writes = {}
    /\ now = 0

\* no worker is inside _scan_loop
LoopIdle ==
    /\ lp_pc = "idle"
    /\ lp_n = 0
    /\ lp_cfg = << >>
    /\ lp_clock = 0
    /\ lp_t0 = 0
    /\ lp_dt = 0
    /\ lp_sleep = 0

CycleIdle == ScanIdle /\ LoopIdle

\* the parts modelled after the scanning threads are not running
FurtherIdle == ProcessIdle /\ LoadIdle /\ CycleIdle

\* the parts modelled after the detector engine are not running
OthersIdle == BatchIdle /\ BankIdle /\ WindowIdle /\ ThreadsIdle /\ FurtherIdle

\* the detector engine is not running
DetectIdle ==
    /\ det_name = ""
    /\ det_cfg = << >>
    /\ hits = << >>
    /\ frame = << >>
    /\ files = << >>
    /\ cache = << >>
    /\ det_pc = "idle"
    /\ det_out = << >>

\* App.__init__: last_click_time = 0, last_state = "UNKNOWN",
\* state_start_time = time.time() (the origin of the model's clock)
AppInit ==
    /\ last_state = "UNKNOWN"
    /\ state_start_time = 0
    /\ last_click_time = 0

\* resolve_state is not being called
ResolveIdle ==
    /\ results = << >>
    /\ rs_pc = "idle"
    /\ rs_ret = ""
    /\ rs_prev = ""
    /\ AppInit

InitResolve ==
    /\ results \in ResultMaps
    /\ rs_pc = "call"
    /\ rs_ret = ""
    /\ rs_prev = ""
    /\ AppInit
    /\ DetectIdle
    /\ OthersIdle

ResolveCall ==
    /\ rs_pc = "call"
    /\ rs_ret' = resolve_state(results)
    /\ rs_pc' = "ret"
    /\ UNCHANGED <<results, rs_prev, app_vars, detect_vars, other_vars>>

NextResolve == ResolveCall

SpecResolve == InitResolve /\ [][NextResolve]_vars

(***************************************************************************)
(* SpecPure: two calls of resolve_state on the same result map; between    *)
(* them the caller (App._scan_once) rewrites its bookkeeping fields        *)
(***************************************************************************)

\* bounds
MaxFound == 2
MaxTime == 1

\* every label resolve_state can return
Labels == {STATE_UNKNOWN} \cup { STATE_RULES[i].state : i \in 1..Len(STATE_RULES) }

\* result maps of a scan cycle: one result per detector name, at most
\* MaxFound of them found
CycleResultMaps ==
    { [n \in RuleDetectorNames |-> [found |-> n \in F]] :
          F \in { G \in SUBSET RuleDetectorNames : Cardinality(G) <= MaxFound } }

InitPure ==
    /\ results \in CycleResultMaps
    /\ rs_pc = "call"
    /\ rs_ret = ""
    /\ rs_prev = ""
    /\ last_state \in Labels
    /\ state_start_time \in 0..MaxTime
    /\ last_click_time \in 0..MaxTime
    /\ DetectIdle
    /\ OthersIdle

\* the caller's writes to last_state, state_start_time and last_click_time
\* between two calls on the same map: any label, any time
CallerBookkeeping ==
    /\ rs_pc = "ret"
    /\ rs_prev = ""
    /\ rs_prev' = rs_ret
    /\ rs_ret' = ""
    /\ rs_pc' = "call"
    /\ last_state' \in Labels
    /\ state_start_time' \in 0..MaxTime
    /\ last_click_time' \in 0..MaxTime
    /\ UNCHANGED <<results, detect_vars, other_vars>>

NextPure == ResolveCall \/ CallerBookkeeping

SpecPure == InitPure /\ [][NextPure]_vars

(***************************************************************************)
(* Properties of resolve_state (SpecResolve)                               *)
(***************************************************************************)

\* names whose result is present with found = true
FoundNames(res) == { n \in DOMAIN res : res[n].found }

\* a rule's two conditions, stated on the set of found names
RuleHolds(r, res) ==
    /\ r.require_all \subseteq FoundNames(res)
    /\ r.require_none \cap FoundNames(res) = {}

\* declaration indexes of the rules whose conditions hold
MatchingRules(res) ==
    { i \in 1..Len(STATE_RULES) : RuleHolds(STATE_RULES[i], res) }

\* declaration indexes of the rules with an empty require_all
FallbackRules == { i \in 1..Len(STATE_RULES) : STATE_RULES[i].require_all = {} }

\* C1: whenever some rule matches, resolve_state returns the state of a
\* matching rule whose priority is the highest among the matching rules, so
\* no lower-priority state is returned while a higher-priority rule matches.
C1_HighestPriorityMatch ==
    (rs_pc = "ret" /\ MatchingRules(results) # {}) =>
        \E i \in MatchingRules(results) :
            /\ rs_ret = STATE_RULES[i].state
            /\ \A j \in MatchingRules(results) :
                   STATE_RULES[j].priority <= STATE_RULES[i].priority

C1_Witness ==
    /\ rs_pc = "ret"
    /\ rs_ret = "DISCONNECTED"
    /\ \E i, j \in MatchingRules(results) :
           STATE_RULES[i].priority < STATE_RULES[j].priority

\* C2: when several matching rules share the highest matching priority, the
\* one declared first is returned; NET_REVEAL (declared 4th, priority 50)
\* beats PRIVATE_SERVERS_MENU (declared 15th, priority 50) whenever both match.
C2_TieFirstDeclaredWins ==
    rs_pc = "ret" =>
        /\ \A i, k \in MatchingRules(results) :
               ( /\ i < k
                 /\ STATE_RULES[i].priority = STATE_RULES[k].priority
                 /\ \A j \in MatchingRules(results) :
                        /\ STATE_RULES[j].priority <= STATE_RULES[i].priority
                        /\ (STATE_RULES[j].priority = STATE_RULES[i].priority => i <= j) )
               => rs_ret = STATE_RULES[i].state
        /\ RULE_NET_REVEAL.priority = RULE_PRIVATE_SERVERS_MENU.priority
        /\ ( RuleHolds(RULE_NET_REVEAL, results)
             /\ RuleHolds(RULE_PRIVATE_SERVERS_MENU, results) )
               => rs_ret # "PRIVATE_SERVERS_MENU"

C2_Witness ==
    /\ rs_pc = "ret"
    /\ RuleHolds(RULE_NET_REVEAL, results)
    /\ RuleHolds(RULE_PRIVATE_SERVERS_MENU, results)
    /\ rs_ret = "NET_REVEAL"

\* C3: a name missing from the map resolves exactly like the same name
\* present with found = false.
C3_AbsentIsNotFound ==
    rs_pc = "ret" =>
        \A n \in RuleDetectorNames \ DOMAIN results :
            rs_ret = resolve_state(results @@ (n :> [found |-> FALSE]))

C3_Witness ==
    /\ rs_pc = "ret"
    /\ "TO_LOBBY_BUTTON" \notin DOMAIN results
    /\ "SWITCH_FISH_ICON" \notin DOMAIN results
    /\ rs_ret = "IN_RUN"

\* C4 as stated: when no rule with a non-empty require_all is satisfied, the
\* state of a fallback rule is returned, never the unmatched default.
C4_Original_AlwaysFallback ==
    ( /\ rs_pc = "ret"
      /\ MatchingRules(results) \subseteq FallbackRules )
    => /\ \E i \in FallbackRules : rs_ret = STATE_RULES[i].state
       /\ rs_ret # STATE_UNKNOWN

\* C4 amended: when no rule with a non-empty require_all is satisfied, the
\* result is NET_REVEAL if none of TO_LOBBY_BUTTON, END_RUN_BUTTON,
\* AUTO_GREEN_ICON is found, and the unmatched default UNKNOWN otherwise.
C4_FallbackOrUnknown ==
    ( /\ rs_pc = "ret"
      /\ MatchingRules(results) \subseteq FallbackRules )
    => IF RULE_NET_REVEAL.require_none \cap FoundNames(results) = {}
       THEN rs_ret = "NET_REVEAL"
       ELSE rs_ret = STATE_UNKNOWN

C4_Witness ==
    /\ rs_pc = "ret"
    /\ MatchingRules(results) = {}
    /\ FoundNames(results) = {"AUTO_GREEN_ICON"}
    /\ rs_ret = STATE_UNKNOWN

\* rules whose require_all the map satisfies; for a map with nothing found
\* these are exactly the rules with an empty require_all
RequireAllSatisfied(res) ==
    { i \in 1..Len(STATE_RULES) : ok_all(res, STATE_RULES[i].require_all) }

\* C5 as stated: exactly one rule of the table has an empty require_all
\* (exactly one require_all is satisfied by a map with nothing found).
C5_Original_OneFallback ==
    FoundNames(results) = {} =>
        /\ RequireAllSatisfied(results) = FallbackRules
        /\ Cardinality(RequireAllSatisfied(results)) = 1

\* C5 amended: exactly two rules of the table have an empty require_all,
\* NET_REVEAL (priority 50) and GAME_CLOSED (priority 20).
C5_TwoFallbacks ==
    FoundNames(results) = {} =>
        /\ RequireAllSatisfied(results) = FallbackRules
        /\ Cardinality(RequireAllSatisfied(results)) = 2
        /\ { STATE_RULES[i] : i \in RequireAllSatisfied(results) }
               = { RULE_NET_REVEAL, RULE_GAME_CLOSED }

C5_Witness ==
    /\ rs_pc = "ret"
    /\ FoundNames(results) = {}
    /\ MatchingRules(results) = FallbackRules
    /\ Cardinality(MatchingRules(results)) = 2

C7_ToLobbyIsDead ==
    ( /\ rs_pc = "ret"
      /\ "TO_LOBBY_BUTTON" \in FoundNames(results) )
    => rs_ret = STATE_DEAD

C7_Witness ==
    /\ rs_pc = "ret"
    /\ {"TO_LOBBY_BUTTON", "END_RUN_BUTTON", "AUTO_GREEN_ICON", "DISCONNECTED_ICON"}
           \subseteq FoundNames(results)
    /\ rs_ret = STATE_DEAD

\* C8: with no detector found (also with an empty map) the result is the
\* non-empty state of a rule with an empty require_all.
C8_NothingFoundIsFallback ==
    ( /\ rs_pc = "ret"
      /\ FoundNames(results) = {} )
    => /\ rs_ret # ""
       /\ \E i \in FallbackRules :
              /\ rs_ret = STATE_RULES[i].state
              /\ RuleHolds(STATE_RULES[i], results)

C8_Witness ==
    /\ rs_pc = "ret"
    /\ DOMAIN results = {}
    /\ rs_ret = "NET_REVEAL"

(***************************************************************************)
(* SpecOcr / SpecImage: run_detector called once on one detector           *)
(***************************************************************************)

\* bounds of the detector inputs
MaxHits == 2
MaxTextLen == 2
MaxPaths == 2

Chars == {"a", "A", "b"}
Texts == UNION { [1..k -> Chars] : k \in 1..MaxTextLen }
Tokens == { << "A" >>, << "a", "B" >> }
Confs == {50, 90}
MinConfs == {50, 80}
BBoxes == { << 0, 0, 4, 2 >>, << 10, 20, 4, 2 >> }

\* OcrHit(text, conf, bbox)
OcrHitSet == [text : Texts, conf : Confs, bbox : BBoxes]
HitLists == UNION { [1..k -> OcrHitSet] : k \in 0..MaxHits }

\* OCR entries of CONFIG.detectors, with and without min_conf
OcrCfgs ==
    { [kind |-> "ocr", token |-> t, min_conf |-> c] : t \in Tokens, c \in MinConfs }
    \cup { [kind |-> "ocr", token |-> t] : t \in Tokens }

Paths == {"a.png", "b.png", "c.png"}
Scores == {-100, 80, 90}
Thresholds == {80, 90}
Images == { [w |-> 2, h |-> 1], [w |-> 3, h |-> 3] }
PathLists == UNION { [1..k -> Paths] : k \in 1..MaxPaths }

\* image entries of CONFIG.detectors: "paths" or "path", with and without
\* "confidence"
ImageCfgs ==
    { [kind |-> "image", paths |-> ps, confidence |-> t] :
          ps \in PathLists, t \in Thresholds }
    \cup { [kind |-> "image", paths |-> ps] : ps \in PathLists }
    \cup { [kind |-> "image", path |-> p, confidence |-> t] :
               p \in Paths, t \in Thresholds }

InitOcr ==
    /\ det_name = "AUTO_TEXT"
    /\ det_cfg \in OcrCfgs
    /\ hits \in HitLists
    /\ frame = << >>
    /\ files = << >>
    /\ cache = << >>
    /\ det_pc = "call"
    /\ det_out = << >>
    /\ ResolveIdle
    /\ OthersIdle

InitImage ==
    /\ det_name = "AUTO_GREEN_ICON"
    /\ det_cfg \in ImageCfgs
    /\ hits = << >>
    /\ frame \in [Paths -> [score : Scores, x : {0, 7}, y : {5}]]
    /\ files \in [Paths -> { << >> } \cup { << img >> : img \in Images }]
    /\ cache = << >>
    /\ det_pc = "call"
    /\ det_out = << >>
    /\ ResolveIdle
    /\ OthersIdle

\* one call of run_detector; bank.get leaves its decoded images in the cache
RunDetector ==
    /\ det_pc = "call"
    /\ LET r == run_detector(det_name, det_cfg, hits, frame, cache, files)
       IN /\ det_out' = [k \in DOMAIN r \ {"cache"} |-> r[k]]
          /\ cache' = r.cache
    /\ det_pc' = "ret"
    /\ UNCHANGED <<det_name, det_cfg, hits, frame, files, resolve_vars, app_vars,
                   other_vars>>

NextDetect == RunDetector

SpecOcr == InitOcr /\ [][NextDetect]_vars

SpecImage == InitImage /\ [][NextDetect]_vars

(***************************************************************************)
(* SpecBatch: main.run_detectors over a registry of detector specs, one    *)
(* step per iteration of its for loop                                      *)
(***************************************************************************)
MaxDetectors == 2

\* names of the registry, in the order of CONFIG.detectors.keys()
RegistryNames == << "AUTO_GREEN_ICON", "END_RUN_BUTTON", "TO_LOBBY_BUTTON" >>

BatchPaths == {"a.png", "b.png"}

\* detector specs as read from the configuration: well-formed ocr and image
\* specs, an unknown kind, and specs with a required key missing
BatchCfgs ==
    { [kind |-> "ocr", token |-> << "A" >>, min_conf |-> 50],
      [kind |-> "image", paths |-> << "a.png" >>, confidence |-> 80],
      [kind |-> "image", paths |-> << "b.png", "a.png" >>],
      [kind |-> "image", path |-> "b.png", confidence |-> 90],
      [kind |-> "video"],
      [kind |-> "image"],
      [kind |-> "ocr"],
      [token |-> << "A" >>] }

BatchHitLists ==
    { << >>, << [text |-> << "a", "b" >>, conf |-> 90, bbox |-> << 0, 0, 4, 2 >>] >> }

\* the matching backend's answer for a template: a score or an exception
BatchMatches ==
    { [score |-> 90, x |-> 7, y |-> 5], [score |-> -100, x |-> 0, y |-> 5],
      [error |-> "error"] }

\* mutant: a detector whose result is not found leaves no entry in out
run_detectors_body_found_only(o, name, cfg, hs, fr, bank, fs) ==
    LET r == run_detector(name, cfg, hs, fr, bank, fs)
    IN IF r.raised # ""
       THEN [raised |-> r.raised, cache |-> r.cache, out |-> o]
       ELSE [raised |-> "", cache |-> r.cache,
             out |-> IF r.result.found
                     THEN (name :> r.result) @@ o ELSE o]

\* body of the for loop: out[name] = run_detector(name, cfg, hits, frame_bgr, bank)
run_detectors_body(o, name, cfg, hs, fr, bank, fs) ==
    LET r == run_detector(name, cfg, hs, fr, bank, fs)
    IN IF r.raised # ""
       THEN [raised |-> r.raised, cache |-> r.cache, out |-> o]
       ELSE [raised |-> "", cache |-> r.cache, out |-> (name :> r.result) @@ o]

\* _scan_once: detector_names = list(CONFIG.detectors.keys()), then the call
\* run_detectors(detector_names, hits, frame_bgr, bank, detectors_dict)
InitBatch ==
    /\ \E n \in 0..MaxDetectors :
          /\ detector_names = SubSeq(RegistryNames, 1, n)
          /\ detectors_dict \in [{ RegistryNames[k] : k \in 1..n } -> BatchCfgs]
    /\ out = << >>
    /\ rd_i = 1
    /\ rd_pc = "loop"
    /\ rd_exc = ""
    /\ hits \in BatchHitLists
    /\ frame \in [BatchPaths -> BatchMatches]
    /\ files \in [BatchPaths -> { << >>, << [w |-> 2, h |-> 1] >> }]
    /\ cache = << >>
    /\ det_name = ""
    /\ det_cfg = << >>
    /\ det_pc = "idle"
    /\ det_out = << >>
    /\ ResolveIdle
    /\ BankIdle
    /\ WindowIdle
    /\ ThreadsIdle
    /\ FurtherIdle

\* one iteration of the for loop; an exception of run_detector leaves
\* run_detectors (there is no try in it) and out is lost with its frame
RunDetectorsStep ==
    /\ rd_pc = "loop"
    /\ rd_i <= Len(detector_names)
    /\ LET name == detector_names[rd_i]
           r == run_detectors_body(out, name, detectors_dict[name],
                                   hits, frame, cache, files)
       IN /\ cache' = r.cache
          /\ out' = r.out
          /\ rd_exc' = r.raised
          /\ rd_pc' = IF r.raised # "" THEN "raised" ELSE "loop"
          /\ rd_i' = IF r.raised # "" THEN rd_i ELSE rd_i + 1
    /\ UNCHANGED <<detector_names, detectors_dict, hits, frame, files,
                   det_name, det_cfg, det_pc, det_out, resolve_vars, app_vars,
                   bank_vars, window_vars, thread_vars,
                   further_vars>>

\* return out
RunDetectorsReturn ==
    /\ rd_pc = "loop"
    /\ rd_i > Len(detector_names)
    /\ rd_pc' = "ret"
    /\ UNCHANGED <<detector_names, detectors_dict, out, rd_i, rd_exc,
                   detect_vars, resolve_vars, app_vars, bank_vars, window_vars,
                   thread_vars,
                   further_vars>>

NextBatch == RunDetectorsStep \/ RunDetectorsReturn

SpecBatch == InitBatch /\ [][NextBatch]_vars

(***************************************************************************)
(* SpecBank: one thread calling TemplateBank.get and TemplateBank.clear in *)
(* any order while template files appear and disappear on disk             *)
(***************************************************************************)
MaxCalls == 4

\* cv2.imread(path): None, or a new array object holding the file's image
imread(fs, path, obj) ==
    IF fs[path] = << >> THEN << >> ELSE << [obj |-> obj] @@ fs[path][1] >>

\* the disk as cv2.imread answers on its next call
imread_all(fs, obj) == [q \in DOMAIN fs |-> imread(fs, q, obj)]

\* does TemplateBank.get reach cv2.imread: only when the path is not cached
reads_file(bank, path) == path \notin DOMAIN bank

\* App.__init__: self.templates = TemplateBank(), an empty cache
InitBankCommon ==
    /\ files \in [BatchPaths -> { << >> } \cup { << img >> : img \in Images }]
    /\ cache = << >>
    /\ attempts = [q \in BatchPaths |-> 0]
    /\ decodes = [q \in BatchPaths |-> 0]
    /\ returned = [q \in BatchPaths |-> {}]
    /\ gets = [q \in BatchPaths |-> 0]
    /\ calls = 0
    /\ next_obj = 1
    /\ hits = << >>
    /\ frame = << >>
    /\ det_name = ""
    /\ det_cfg = << >>
    /\ det_pc = "idle"
    /\ det_out = << >>
    /\ ResolveIdle
    /\ BatchIdle
    /\ WindowIdle
    /\ ThreadsIdle
    /\ FurtherIdle

InitBank ==
    /\ InitBankCommon
    /\ bk_last = << >>
    /\ bk_pc = << >>
    /\ bk_path = << >>
    /\ bk_img = << >>
    /\ bk_ret = << >>

\* one whole call self.templates.get(path)
BankGet ==
    /\ calls < MaxCalls
    /\ \E path \in BatchPaths :
          LET r == bank_get(cache, imread_all(files, next_obj), path)
              read == reads_file(cache, path)
          IN /\ cache' = r.cache
             /\ bk_last' = [op |-> "get", path |-> path, read |-> read]
                               @@ [k \in DOMAIN r \ {"cache"} |-> r[k]]
             /\ attempts' = [attempts EXCEPT ![path] = @ + (IF read THEN 1 ELSE 0)]
             /\ decodes' = [decodes EXCEPT
                               ![path] = @ + (IF read /\ ~r.raised THEN 1 ELSE 0)]
             /\ returned' = IF r.raised THEN returned
                            ELSE [returned EXCEPT ![path] = @ \cup {r.img}]
             /\ gets' = [gets EXCEPT ![path] = @ + (IF r.raised THEN 0 ELSE 1)]
             /\ next_obj' = next_obj + (IF read /\ ~r.raised THEN 1 ELSE 0)
    /\ calls' = calls + 1
    /\ UNCHANGED <<files, bk_pc, bk_path, bk_img, bk_ret, hits, frame, det_name,
                   det_cfg, det_pc, det_out, resolve_vars, app_vars, batch_vars,
                   window_vars, thread_vars,
                   further_vars>>

\* one whole call self.templates.clear()
BankClear ==
    /\ calls < MaxCalls
    /\ cache' = << >>
    /\ bk_last' = [op |-> "clear"]
    /\ decodes' = [q \in DOMAIN decodes |-> 0]
    /\ returned' = [q \in DOMAIN returned |-> {}]
    /\ gets' = [q \in DOMAIN gets |-> 0]
    /\ calls' = calls + 1
    /\ UNCHANGED <<files, bk_pc, bk_path, bk_img, bk_ret, attempts, next_obj, hits,
                   frame, det_name, det_cfg, det_pc, det_out, resolve_vars,
                   app_vars, batch_vars, window_vars, thread_vars,
                   further_vars>>

\* the environment: a template file is written, replaced or removed
FileChange ==
    /\ calls < MaxCalls
    /\ \E path \in BatchPaths, f \in { << >> } \cup { << img >> : img \in Images } :
          /\ f # files[path]
          /\ files' = [files EXCEPT ![path] = f]
    /\ UNCHANGED <<cache, bk_last, bk_pc, bk_path, bk_img, bk_ret, attempts, decodes,
                   returned, gets, calls, next_obj, hits, frame, det_name, det_cfg, det_pc,
                   det_out, resolve_vars, app_vars, batch_vars, window_vars,
                   thread_vars,
                   further_vars>>

NextBank == BankGet \/ BankClear \/ FileChange

SpecBank == InitBank /\ [][NextBank]_vars

(***************************************************************************)
(* SpecBankThreads: threads inside TemplateBank.get, one step per access   *)
(* of self._cache, while another thread may call clear() between any two   *)
(* of them (the interpreter can switch threads between the membership test *)
(* and the subscript)                                                      *)
(***************************************************************************)
MaxGetters == 2

Getters == 1..MaxGetters

InitBankThreads ==
    /\ InitBankCommon
    /\ bk_last = << >>
    /\ bk_pc = [t \in Getters |-> "idle"]
    /\ bk_path = [t \in Getters |-> ""]
    /\ bk_img = [t \in Getters |-> << >>]
    /\ bk_ret = [t \in Getters |-> << >>]

\* what BankThreads steps leave alone outside the bank
bank_frame == <<hits, frame, det_name, det_cfg, det_pc, det_out, resolve_vars,
                app_vars, batch_vars, window_vars, thread_vars,
                further_vars>>

\* a thread enters get(path)
GetCall(t) ==
    /\ bk_pc[t] \in {"idle", "ret", "raised"}
    /\ calls < MaxCalls
    /\ \E path \in BatchPaths : bk_path' = [bk_path EXCEPT ![t] = path]
    /\ bk_pc' = [bk_pc EXCEPT ![t] = "test"]
    /\ bk_img' = [bk_img EXCEPT ![t] = << >>]
    /\ bk_ret' = [bk_ret EXCEPT ![t] = << >>]
    /\ calls' = calls + 1
    /\ UNCHANGED <<files, cache, bk_last, attempts, decodes, returned, gets,
                   next_obj, bank_frame>>

\* if path in self._cache:
GetTest(t) ==
    /\ bk_pc[t] = "test"
    /\ bk_pc' = [bk_pc EXCEPT ![t] = IF bk_path[t] \in DOMAIN cache
                                     THEN "subscript" ELSE "imread"]
    /\ UNCHANGED <<files, cache, bk_last, bk_path, bk_img, bk_ret, attempts,
                   decodes, returned, gets, calls, next_obj, bank_frame>>

\* return self._cache[path]
GetSubscript(t) ==
    /\ bk_pc[t] = "subscript"
    /\ IF bk_path[t] \in DOMAIN cache
       THEN /\ bk_ret' = [bk_ret EXCEPT ![t] = << cache[bk_path[t]] >>]
            /\ bk_pc' = [bk_pc EXCEPT ![t] = "ret"]
            /\ returned' = [returned EXCEPT ![bk_path[t]] = @ \cup {cache[bk_path[t]]}]
            /\ gets' = [gets EXCEPT ![bk_path[t]] = @ + 1]
       ELSE /\ bk_ret' = [bk_ret EXCEPT ![t] = "KeyError"]
            /\ bk_pc' = [bk_pc EXCEPT ![t] = "raised"]
            /\ UNCHANGED <<returned, gets>>
    /\ UNCHANGED <<files, cache, bk_last, bk_path, bk_img, attempts, decodes,
                   calls, next_obj, bank_frame>>

\* img = cv2.imread(path, cv2.IMREAD_COLOR); if img is None: raise ...
GetImread(t) ==
    /\ bk_pc[t] = "imread"
    /\ LET img == imread(files, bk_path[t], next_obj)
       IN /\ bk_img' = [bk_img EXCEPT ![t] = img]
          /\ attempts' = [attempts EXCEPT ![bk_path[t]] = @ + 1]
          /\ IF img = << >>
             THEN /\ bk_ret' = [bk_ret EXCEPT ![t] = "FileNotFoundError"]
                  /\ bk_pc' = [bk_pc EXCEPT ![t] = "raised"]
                  /\ UNCHANGED next_obj
             ELSE /\ bk_pc' = [bk_pc EXCEPT ![t] = "store"]
                  /\ next_obj' = next_obj + 1
                  /\ UNCHANGED bk_ret
    /\ UNCHANGED <<files, cache, bk_last, bk_path, decodes, returned, gets, calls,
                   bank_frame>>

\* self._cache[path] = img; return img
GetStore(t) ==
    /\ bk_pc[t] = "store"
    /\ cache' = (bk_path[t] :> bk_img[t][1]) @@ cache
    /\ bk_ret' = [bk_ret EXCEPT ![t] = bk_img[t]]
    /\ bk_pc' = [bk_pc EXCEPT ![t] = "ret"]
    /\ decodes' = [decodes EXCEPT ![bk_path[t]] = @ + 1]
    /\ returned' = [returned EXCEPT ![bk_path[t]] = @ \cup {bk_img[t][1]}]
    /\ gets' = [gets EXCEPT ![bk_path[t]] = @ + 1]
    /\ UNCHANGED <<files, bk_last, bk_path, bk_img, attempts, calls, next_obj,
                   bank_frame>>

NextBankThreads ==
    \/ \E t \in Getters : GetCall(t)
    \/ \E t \in Getters : GetTest(t)
    \/ \E t \in Getters : GetSubscript(t)
    \/ \E t \in Getters : GetImread(t)
    \/ \E t \in Getters : GetStore(t)
    \/ BankClear
    \/ FileChange

SpecBankThreads == InitBankThreads /\ [][NextBankThreads]_vars

(***************************************************************************)
(* window_manager.py                                                       *)
(*                                                                         *)
(* Rectangles are << left, top, right, bottom >>.  The window is           *)
(* [present, rect, border, fg]: a visible window with the title exists,    *)
(* GetWindowRect, the outer size minus the client size (borders and title  *)
(* bar), and whether it is the foreground window.  The window is in the    *)
(* normal show state (ShowWindow(SW_RESTORE) leaves its rectangle alone).  *)
(***************************************************************************)

\* EnforceConfig defaults
EnforceConfig ==
    [monitor_index |-> 1, target_client_w |-> 1280, target_client_h |-> 720,
     pad_left |-> 40, pad_top |-> 40,
     try_alt_enter_to_escape_fullscreen |-> TRUE,
     size_tolerance_px |-> 2]

max2(a, b) == IF a >= b THEN a ELSE b

min2(a, b) == IF a <= b THEN a ELSE b

abs(a) == IF a < 0 THEN -a ELSE a

\* get_monitor_rect_mss: sct.monitors[0] is the virtual desktop, monitors[i]
\* the i-th monitor
get_monitor_rect_mss(mons, monitor_index) == mons[monitor_index]

rect_center(rect) ==
    << rect[1] + ((rect[3] - rect[1]) \div 2), rect[2] + ((rect[4] - rect[2]) \div 2) >>

point_in_rect(x, y, rect) ==
    (rect[1] <= x /\ x < rect[3]) /\ (rect[2] <= y /\ y < rect[4])

rect_area(rect) == max2(0, rect[3] - rect[1]) * max2(0, rect[4] - rect[2])

rect_intersect(a, b) ==
    LET l == max2(a[1], b[1])
        t == max2(a[2], b[2])
        r == min2(a[3], b[3])
        btm == min2(a[4], b[4])
    IN IF r <= l \/ btm <= t THEN << 0, 0, 0, 0 >> ELSE << l, t, r, btm >>

window_is_on_monitor(w, monitor_rect) ==
    LET c == rect_center(w.rect) IN point_in_rect(c[1], c[2], monitor_rect)

\* mutant: a second overlap of exactly 15% of the best counts as spanning
window_looks_spanning_monitors_inclusive(w, mons) ==
    LET overlaps == [i \in 1..Len(mons) |-> rect_area(rect_intersect(w.rect, mons[i]))]
    IN IF Len(mons) < 2 THEN FALSE
       ELSE LET ib == CHOOSE i \in 1..Len(mons) :
                          \A j \in 1..Len(mons) : overlaps[i] >= overlaps[j]
                is == CHOOSE i \in (1..Len(mons)) \ {ib} :
                          \A j \in (1..Len(mons)) \ {ib} : overlaps[i] >= overlaps[j]
                best == overlaps[ib]
                second == overlaps[is]
            IN best > 0 /\ 100 * second >= 15 * best

\* overlaps_sorted[0] and overlaps_sorted[1] of the overlap areas; true when
\* best > 0 and second > 0.15 * best
window_looks_spanning_monitors(w, mons) ==
    LET overlaps == [i \in 1..Len(mons) |-> rect_area(rect_intersect(w.rect, mons[i]))]
    IN IF Len(mons) < 2 THEN FALSE
       ELSE LET ib == CHOOSE i \in 1..Len(mons) :
                          \A j \in 1..Len(mons) : overlaps[i] >= overlaps[j]
                is == CHOOSE i \in (1..Len(mons)) \ {ib} :
                          \A j \in (1..Len(mons)) \ {ib} : overlaps[i] >= overlaps[j]
                best == overlaps[ib]
                second == overlaps[is]
            IN best > 0 /\ 100 * second > 15 * best

\* mutant: a window covering exactly 95% counts as fullscreen-like
looks_fullscreen_like_inclusive(w, monitor_rect) ==
    LET mw == monitor_rect[3] - monitor_rect[1]
        mh == monitor_rect[4] - monitor_rect[2]
        ww == w.rect[3] - w.rect[1]
        wh == w.rect[4] - w.rect[2]
    IN IF mw <= 0 \/ mh <= 0 THEN FALSE
       ELSE (100 * ww >= 95 * mw) /\ (100 * wh >= 95 * mh)

\* cover_w > 0.95 and cover_h > 0.95, in hundredths
looks_fullscreen_like(w, monitor_rect) ==
    LET mw == monitor_rect[3] - monitor_rect[1]
        mh == monitor_rect[4] - monitor_rect[2]
        ww == w.rect[3] - w.rect[1]
        wh == w.rect[4] - w.rect[2]
    IN IF mw <= 0 \/ mh <= 0 THEN FALSE
       ELSE (100 * ww > 95 * mw) /\ (100 * wh > 95 * mh)

\* GetClientRect: the outer size less borders and title bar
get_client_size(w) ==
    << (w.rect[3] - w.rect[1]) - w.border[1], (w.rect[4] - w.rect[2]) - w.border[2] >>

\* get_window_status(hwnd, cfg) -> WindowStatus
get_window_status(w, mons, cfg) ==
    LET mon_rect == get_monitor_rect_mss(mons, cfg.monitor_index)
    IN [win_rect |-> w.rect,
        client_size |-> get_client_size(w),
        is_foreground |-> w.fg,
        is_on_target_monitor |-> window_is_on_monitor(w, mon_rect),
        looks_spanning_monitors |-> window_looks_spanning_monitors(w, mons),
        looks_fullscreen_like |-> looks_fullscreen_like(w, mon_rect)]

\* The desktop's answers to the operations ensure_window issues:
\*   act, act2 : SetForegroundWindow brings the window to the foreground
\*   toggle    : the Alt+Enter gesture: "windowed" (the game leaves
\*               fullscreen), "none" (no effect), "raises" (pyautogui raises)
\*   move      : SetWindowPos (move): "ok", "ignored", "raises"
\*   resize    : SetWindowPos (resize): "ok", "fallback" (AdjustWindowRectEx
\*               raised, outer size = client target), "ignored", "raises"
ActivateOutcomes == [act : BOOLEAN]

ToggleOutcomes == [act2 : BOOLEAN, toggle : {"windowed", "none", "raises"}]

MoveOutcomes == [move : {"ok", "ignored", "raises"}]

ResizeOutcomes == [resize : {"ok", "fallback", "ignored", "raises"}]

\* the window the game shows after leaving fullscreen
WindowedRect == << 100, 100, 916, 739 >>

\* borders and title bar of a decorated window
DecoratedBorder == << 16, 39 >>

\* activate_window(hwnd): exceptions are swallowed, the window is in the
\* foreground afterwards if it was or if the desktop granted the request
activate_window(a, ok, note) ==
    [a EXCEPT !.win.fg = a.win.fg \/ ok,
              !.ops = Append(@, "activate"),
              !.log = Append(@, note)]

\* mutant: the window is activated on every call
needs_activate_always(st) == TRUE

\* if not st.is_foreground:
needs_activate(st) == ~st.is_foreground

\* step 1 of ensure_window
step_activate(a, mons, cfg, oc) ==
    IF needs_activate(get_window_status(a.win, mons, cfg))
    THEN activate_window(a, oc.act, "activated")
    ELSE a

\* try_alt_enter_toggle(hwnd, cfg, log_fn); the gesture reaches the game
\* only if its window is in the foreground
try_alt_enter_toggle(a, cfg, oc) ==
    IF ~cfg.try_alt_enter_to_escape_fullscreen THEN a
    ELSE LET b == activate_window(a, oc.act2, "activate before Alt+Enter")
         IN IF oc.toggle = "raises"
            THEN [b EXCEPT !.ops = Append(@, "alt_enter"),
                           !.log = Append(@, "Alt+Enter failed")]
            ELSE [b EXCEPT !.ops = Append(@, "alt_enter"),
                           !.log = Append(@, "sent Alt+Enter toggle"),
                           !.win = IF oc.toggle = "windowed" /\ b.win.fg
                                   THEN [@ EXCEPT !.rect = WindowedRect,
                                                  !.border = DecoratedBorder]
                                   ELSE @]

\* step 2 of ensure_window
step_fullscreen(a, mons, cfg, oc) ==
    IF get_window_status(a.win, mons, cfg).looks_fullscreen_like
    THEN try_alt_enter_toggle(
             [a EXCEPT !.log = Append(@, "looks fullscreen-like")], cfg, oc)
    ELSE a

\* x = ml + cfg.pad_left, y = mt + cfg.pad_top
target_xy(mons, cfg) ==
    LET mon_rect == get_monitor_rect_mss(mons, cfg.monitor_index)
    IN << mon_rect[1] + cfg.pad_left, mon_rect[2] + cfg.pad_top >>

\* step 3 of ensure_window: SetWindowPos with SWP_NOSIZE is not in a try
step_move(a, mons, cfg, oc) ==
    LET st == get_window_status(a.win, mons, cfg)
        xy == target_xy(mons, cfg)
        w == a.win.rect[3] - a.win.rect[1]
        h == a.win.rect[4] - a.win.rect[2]
    IN IF ~st.is_on_target_monitor \/ st.looks_spanning_monitors
       THEN IF oc.move = "raises"
            THEN [a EXCEPT !.ops = Append(@, "move"), !.raised = TRUE]
            ELSE [a EXCEPT !.ops = Append(@, "move"),
                           !.log = Append(@, "moved"),
                           !.win.rect = IF oc.move = "ok"
                                        THEN << xy[1], xy[2], xy[1] + w, xy[2] + h >>
                                        ELSE @]
       ELSE a

\* mutant: a client size at the tolerance is not accepted
size_ok_strict(st, cfg) ==
    /\ abs(st.client_size[1] - cfg.target_client_w) < cfg.size_tolerance_px
    /\ abs(st.client_size[2] - cfg.target_client_h) < cfg.size_tolerance_px

\* size_ok = (abs(cw - tw) <= tol) and (abs(ch - th) <= tol)
size_ok(st, cfg) ==
    /\ abs(st.client_size[1] - cfg.target_client_w) <= cfg.size_tolerance_px
    /\ abs(st.client_size[2] - cfg.target_client_h) <= cfg.size_tolerance_px

\* resize_window_to_target_client: GetWindowLong and SetWindowPos are not in
\* a try, AdjustWindowRectEx is (fallback: outer size = client target)
resize_window_to_target_client(a, tw, th, x, y, oc) ==
    IF oc.resize = "raises"
    THEN [a EXCEPT !.ops = Append(@, "resize"), !.raised = TRUE]
    ELSE LET outer_w == IF oc.resize = "fallback" THEN tw ELSE tw + a.win.border[1]
             outer_h == IF oc.resize = "fallback" THEN th ELSE th + a.win.border[2]
         IN [a EXCEPT !.ops = Append(@, "resize"),
                      !.log = Append(@, "resized"),
                      !.win.rect = IF oc.resize = "ignored" THEN @
                                   ELSE << x, y, x + outer_w, y + outer_h >>]

\* step 4 of ensure_window
step_resize(a, mons, cfg, oc) ==
    LET st == get_window_status(a.win, mons, cfg)
        xy == target_xy(mons, cfg)
    IN IF ~size_ok(st, cfg)
       THEN resize_window_to_target_client(a, cfg.target_client_w,
                                           cfg.target_client_h, xy[1], xy[2], oc)
       ELSE a

(***************************************************************************)
(* SpecWindow: consecutive invocations of ensure_window on a desktop that  *)
(* changes only through the operations ensure_window issues                *)
(***************************************************************************)
MaxInvocations == 2

\* one or two monitors side by side
MonitorLayouts ==
    { << << 0, 0, 1920, 1080 >> >>,
      << << 0, 0, 1920, 1080 >>, << 1920, 0, 3840, 1080 >> >> }

\* decorated windows: at the target place and size, at and beyond the size
\* tolerance, small, on the second monitor, spanning both monitors, with a
\* second overlap of exactly 15% of the first; and borderless windows
\* covering the first monitor wholly, in width only, to exactly 95% and to
\* just above 95%
WindowShapes ==
    { [rect |-> << 40, 40, 1336, 799 >>, border |-> DecoratedBorder],
      [rect |-> << 300, 200, 1598, 961 >>, border |-> DecoratedBorder],
      [rect |-> << 40, 40, 1339, 799 >>, border |-> DecoratedBorder],
      [rect |-> << 40, 40, 856, 679 >>, border |-> DecoratedBorder],
      [rect |-> << 2000, 100, 3296, 859 >>, border |-> DecoratedBorder],
      [rect |-> << 1200, 100, 2496, 859 >>, border |-> DecoratedBorder],
      [rect |-> << 920, 100, 2070, 859 >>, border |-> DecoratedBorder],
      [rect |-> << 0, 0, 1920, 1080 >>, border |-> << 0, 0 >>],
      [rect |-> << 0, 0, 1920, 1000 >>, border |-> << 0, 0 >>],
      [rect |-> << 0, 0, 1824, 1026 >>, border |-> << 0, 0 >>],
      [rect |-> << 0, 0, 1825, 1027 >>, border |-> << 0, 0 >>] }

InitWindow ==
    /\ \E sh \in WindowShapes, present \in BOOLEAN, fg \in BOOLEAN :
          win = [present |-> present, rect |-> sh.rect, border |-> sh.border,
                 fg |-> present /\ fg]
    /\ monitors \in MonitorLayouts
    /\ ew_cfg \in { EnforceConfig,
                     [EnforceConfig EXCEPT !.try_alt_enter_to_escape_fullscreen = FALSE] }
    /\ ew_pc = "idle"
    /\ ew_cur = << >>
    /\ ew_hist = << >>
    /\ DetectIdle
    /\ ResolveIdle
    /\ BatchIdle
    /\ BankIdle
    /\ ThreadsIdle
    /\ FurtherIdle

\* what the steps of ensure_window leave alone
window_frame == <<monitors, ew_cfg, detect_vars, resolve_vars, app_vars,
                  batch_vars, bank_vars, thread_vars,
                  further_vars>>

\* the invocation in progress joined with the desktop's window
ew_acc == [win |-> win] @@ ew_cur

\* the invocation ends: by return st, return None or an exception
ew_done(a) ==
    [before |-> a.before, after |-> a.win, ret |-> a.ret, raised |-> a.raised,
     ops |-> a.ops, log |-> a.log]

\* the result of a step: the window, the invocation record, the next position
ew_step(a, next_pc) ==
    /\ win' = a.win
    /\ IF a.raised \/ next_pc = "idle"
       THEN /\ ew_hist' = Append(ew_hist, ew_done(a))
            /\ ew_cur' = << >>
            /\ ew_pc' = "idle"
       ELSE /\ ew_cur' = [k \in DOMAIN ew_cur |-> a[k]]
            /\ ew_pc' = next_pc
            /\ UNCHANGED ew_hist
    /\ UNCHANGED window_frame

\* hwnd = find_window_by_title_contains(...); if not hwnd: log, return None;
\* otherwise the first snapshot (log_fn returns normally)
EwCall ==
    /\ ew_pc = "idle"
    /\ Len(ew_hist) < MaxInvocations
    /\ LET a0 == [before |-> win, ops |-> << >>, log |-> << >>,
                  raised |-> FALSE, ret |-> << >>]
       IN IF ~win.present
          THEN /\ ew_hist' = Append(ew_hist,
                                    ew_done([win |-> win] @@
                                            [a0 EXCEPT !.log = << "NOT FOUND" >>]))
               /\ UNCHANGED <<ew_cur, ew_pc>>
          ELSE /\ ew_cur' = a0
               /\ ew_pc' = "step1"
               /\ UNCHANGED ew_hist
    /\ UNCHANGED <<win, window_frame>>

\* 1) Activate if needed
EwActivate ==
    /\ ew_pc = "step1"
    /\ \E oc \in ActivateOutcomes :
          ew_step(step_activate(ew_acc, monitors, ew_cfg, oc), "step2")

\* 2) If it looks fullscreen-like, try toggling to windowed mode
EwFullscreen ==
    /\ ew_pc = "step2"
    /\ \E oc \in ToggleOutcomes :
          ew_step(step_fullscreen(ew_acc, monitors, ew_cfg, oc), "step3")

\* 3) Ensure on target monitor
EwMove ==
    /\ ew_pc = "step3"
    /\ \E oc \in MoveOutcomes :
          ew_step(step_move(ew_acc, monitors, ew_cfg, oc), "step4")

\* 4) Ensure client size matches target
EwResize ==
    /\ ew_pc = "step4"
    /\ \E oc \in ResizeOutcomes :
          ew_step(step_resize(ew_acc, monitors, ew_cfg, oc), "final")

\* mutant: the snapshot taken on entry is returned
EwReturn_first_snapshot ==
    /\ ew_pc = "final"
    /\ ew_step([ew_acc EXCEPT !.log = Append(@, "final"),
                              !.ret = << get_window_status(ew_cur.before, monitors,
                                                           ew_cfg) >>],
               "idle")

\* final status, final log line, return st
EwReturn ==
    /\ ew_pc = "final"
    /\ ew_step([ew_acc EXCEPT !.log = Append(@, "final"),
                              !.ret = << get_window_status(win, monitors, ew_cfg) >>],
               "idle")

NextWindow ==
    EwCall \/ EwActivate \/ EwFullscreen \/ EwMove \/ EwResize \/ EwReturn

SpecWindow == InitWindow /\ [][NextWindow]_vars

\* the thread inside ensure_window keeps running: its sleeps are finite and
\* no step waits for anything
SpecWindowFair ==
    SpecWindow /\ WF_vars(EwActivate \/ EwFullscreen \/ EwMove \/ EwResize \/ EwReturn)

(***************************************************************************)
(* SpecThreads: App.start, App.stop, App.single_scan and the threads they  *)
(* start.  The three callbacks run on the UI thread (button or hotkey, one *)
(* at a time); the threads' steps interleave with them freely.             *)
(***************************************************************************)
MaxWorkers == 3

\* the fields of the Config dataclass (config_loader.py)
ConfigFields ==
    { "app_dir", "assets_dir", "tesseract_exe_path", "target_window_title",
      "activate_before_capture", "enforce_window_before_scan",
      "target_monitor_index", "target_client_w", "target_client_h",
      "window_exe_path", "launch_if_not_found", "wait_after_launch_s",
      "default_refresh_ms", "min_refresh_ms", "max_refresh_ms", "refresh_step",
      "min_sleep_s", "default_conf_threshold", "min_conf", "max_conf",
      "conf_step", "default_template_confidence", "template_timeout_s",
      "pyautogui_failsafe", "pyautogui_pause", "debug_save_screenshots",
      "debug_save_every_scan", "debug_screenshot_subfolder", "debug_enable_ui",
      "debug_window_print", "detectors", "template_paths_map" }

\* App._log reads CONFIG.enable_actions_logging before anything else; the
\* attribute does not exist, so every call raises AttributeError
log_raises == "enable_actions_logging" \notin ConfigFields

\* threads that have not left _scan_loop
Alive ==
    { w \in 1..Len(th_pc) :
          th_kind[w] = "loop" /\ th_pc[w] \in {"test", "scan", "handler"} }

\* threads inside _scan_once
InScanOnce == { w \in 1..Len(th_pc) : th_pc[w] \in {"scan", "handler"} }

InitThreads ==
    /\ ThreadsIdle
    /\ FurtherIdle
    /\ DetectIdle
    /\ ResolveIdle
    /\ BatchIdle
    /\ BankIdle
    /\ WindowIdle

\* what the steps of SpecThreads leave alone
threads_frame == <<detect_vars, resolve_vars, app_vars, batch_vars, bank_vars,
                   window_vars, further_vars>>

\* the fields start() and stop() read and write, and the threads made so far
ui_fields ==
    [is_running |-> is_running, stop_event |-> stop_event,
     worker_thread |-> worker_thread, threads |-> Len(th_pc)]

\* mutant: start() without the is_running test
Start_without_check ==
    /\ Len(th_pc) < MaxWorkers
    /\ stop_event' = FALSE
    /\ is_running' = TRUE
    /\ th_pc' = Append(th_pc, "test")
    /\ th_kind' = Append(th_kind, "loop")
    /\ th_hwnd' = Append(th_hwnd, "unset")
    /\ worker_thread' = Len(th_pc) + 1
    /\ ui_last' = [call |-> "start", before |-> ui_fields, after |-> ui_fields']
    /\ UNCHANGED <<stop_seen, threads_frame>>

\* App.start(): returns at once if is_running; otherwise clears the event,
\* sets is_running and starts a new daemon thread on _scan_loop (the closing
\* self._log raises in the UI callback, after all of this)
Start ==
    /\ IF is_running
       THEN UNCHANGED <<stop_event, is_running, th_pc, th_kind, th_hwnd,
                        worker_thread>>
       ELSE /\ Len(th_pc) < MaxWorkers
            /\ stop_event' = FALSE
            /\ is_running' = TRUE
            /\ th_pc' = Append(th_pc, "test")
            /\ th_kind' = Append(th_kind, "loop")
            /\ th_hwnd' = Append(th_hwnd, "unset")
            /\ worker_thread' = Len(th_pc) + 1
    /\ ui_last' = [call |-> "start", before |-> ui_fields, after |-> ui_fields']
    /\ UNCHANGED <<stop_seen, threads_frame>>

\* App.stop(): returns at once unless is_running; otherwise sets the event
\* and clears is_running; it does not wait for the worker
Stop ==
    /\ IF ~is_running
       THEN UNCHANGED <<stop_event, is_running, stop_seen>>
       ELSE /\ stop_event' = TRUE
            /\ is_running' = FALSE
            /\ stop_seen' = stop_seen \cup Alive
    /\ UNCHANGED <<worker_thread, th_pc, th_kind, th_hwnd, threads_frame>>
    /\ ui_last' = [call |-> "stop", before |-> ui_fields, after |-> ui_fields']

\* App.single_scan(): starts a daemon thread on _scan_once(force_refresh=True)
\* whatever is_running is; <F1> is bound to it unconditionally
SingleScan ==
    /\ Len(th_pc) < MaxWorkers
    /\ th_pc' = Append(th_pc, "scan")
    /\ th_kind' = Append(th_kind, "single")
    /\ th_hwnd' = Append(th_hwnd, "unset")
    /\ ui_last' = [call |-> "single_scan", before |-> ui_fields,
                   after |-> [ui_fields EXCEPT !.threads = Len(th_pc) + 1]]
    /\ UNCHANGED <<is_running, stop_event, worker_thread, stop_seen, threads_frame>>

\* while not self._stop_event.is_set(): ... ; self._log("[run] stopped")
LoopTest(w) ==
    /\ th_pc[w] = "test"
    /\ th_pc' = [th_pc EXCEPT ![w] = IF ~stop_event THEN "scan"
                                     ELSE IF log_raises THEN "crashed" ELSE "done"]
    /\ th_hwnd' = [th_hwnd EXCEPT ![w] = "unset"]
    /\ UNCHANGED <<is_running, stop_event, worker_thread, th_kind, ui_last,
                   stop_seen, threads_frame>>

\* self._scan_once(), up to its first log line: ensure_process_running looks
\* for the window and logs on both of its branches, the call raises and
\* control enters the handler
ScanOnce(w) ==
    /\ th_pc[w] = "scan"
    /\ log_raises
    /\ \E hwnd \in {"found", "none"} : th_hwnd' = [th_hwnd EXCEPT ![w] = hwnd]
    /\ th_pc' = [th_pc EXCEPT ![w] = "handler"]
    /\ UNCHANGED <<is_running, stop_event, worker_thread, th_kind, ui_last,
                   stop_seen, threads_frame>>

\* except Exception as e: self._log(...): raises again, the exception leaves
\* _scan_once (and _scan_loop) and ends the thread
ExceptHandler(w) ==
    /\ th_pc[w] = "handler"
    /\ log_raises
    /\ th_pc' = [th_pc EXCEPT ![w] = "crashed"]
    /\ UNCHANGED <<is_running, stop_event, worker_thread, th_kind, th_hwnd,
                   ui_last, stop_seen, threads_frame>>

NextThreads ==
    \/ Start
    \/ Stop
    \/ SingleScan
    \/ \E w \in 1..Len(th_pc) : LoopTest(w)
    \/ \E w \in 1..Len(th_pc) : ScanOnce(w)
    \/ \E w \in 1..Len(th_pc) : ExceptHandler(w)

SpecThreads == InitThreads /\ [][NextThreads]_vars

(***************************************************************************)
(* process_manager.py : ensure_process_running and launch_application.     *)
(* log_fn is the function the caller passes (print by default) and returns *)
(* normally.  The system's answers are fixed per call in pr_env:           *)
(*   hwnd, hwnd2 : find_window_by_title_contains finds a window, before    *)
(*                 the launch and after the wait                           *)
(*   exists, is_file : Path(exe_path).exists(), .is_file()                 *)
(*   popen : subprocess.Popen: "ok" or the exception it raises             *)
(***************************************************************************)

\* exe_path: None, the empty string, a path
ExePaths == { << >>, << "" >>, << "game.exe" >> }

ProcessArgs == [exe_path : ExePaths, launch_enabled : BOOLEAN]

PopenOutcomes == {"ok", "FileNotFoundError", "PermissionError", "OSError"}

ProcessEnvs ==
    { e \in [hwnd : BOOLEAN, hwnd2 : BOOLEAN, exists : BOOLEAN,
             is_file : BOOLEAN, popen : PopenOutcomes] : e.is_file => e.exists }

\* if not exe_path: None and "" are both falsy
falsy(exe_path) == exe_path = << >> \/ exe_path = << "" >>

\* launch_application(exe_path, log_fn) -> bool, with the Popen calls made
\* and started and the messages logged
launch_application(env) ==
    IF ~env.exists
    THEN [ok |-> FALSE, popen |-> 0, started |-> 0,
          log |-> << "ERROR: Executable not found" >>]
    ELSE IF ~env.is_file
    THEN [ok |-> FALSE, popen |-> 0, started |-> 0,
          log |-> << "ERROR: Path is not a file" >>]
    ELSE IF env.popen = "ok"
    THEN [ok |-> TRUE, popen |-> 1, started |-> 1,
          log |-> << "Launching application", "Launch command sent successfully" >>]
    ELSE [ok |-> FALSE, popen |-> 1, started |-> 0,
          log |-> << "Launching application",
                     IF env.popen = "FileNotFoundError"
                     THEN "ERROR: Executable not found"
                     ELSE IF env.popen = "PermissionError"
                          THEN "ERROR: Permission denied when launching"
                          ELSE "ERROR: Failed to launch application" >>]

\* mutant: after the wait, True is returned only if the window has appeared
after_wait_requires_window(hwnd2) == hwnd2

\* the value returned after the wait: True on both branches
after_wait(hwnd2) == TRUE

InitProcess ==
    /\ pr_args \in ProcessArgs
    /\ pr_env \in ProcessEnvs
    /\ pr_pc = "call"
    /\ pr_ret = << >>
    /\ pr_popen = 0
    /\ pr_started = 0
    /\ pr_log = << >>
    /\ DetectIdle
    /\ ResolveIdle
    /\ BatchIdle
    /\ BankIdle
    /\ WindowIdle
    /\ ThreadsIdle
    /\ LoadIdle
    /\ CycleIdle

\* what the steps of ensure_process_running leave alone
process_frame == <<pr_args, pr_env, detect_vars, resolve_vars, app_vars,
                   batch_vars, bank_vars, window_vars, thread_vars, load_vars,
                   cycle_vars, loop_vars>>

\* ensure_process_running, up to the launch: the window test and the two
\* tests that give up without launching
EnsureProcessRunning ==
    /\ pr_pc = "call"
    /\ IF pr_env.hwnd
       THEN /\ pr_log' = Append(pr_log, "Window found")
            /\ pr_ret' = << TRUE >>
            /\ pr_pc' = "ret"
       ELSE IF ~pr_args.launch_enabled
       THEN /\ pr_log' = pr_log \o << "No window found", "Auto-launch is disabled" >>
            /\ pr_ret' = << FALSE >>
            /\ pr_pc' = "ret"
       ELSE IF falsy(pr_args.exe_path)
       THEN /\ pr_log' = pr_log \o << "No window found",
                                      "No executable path configured for auto-launch" >>
            /\ pr_ret' = << FALSE >>
            /\ pr_pc' = "ret"
       ELSE /\ pr_log' = pr_log \o << "No window found",
                                      "Attempting to launch application..." >>
            /\ pr_pc' = "launch"
            /\ UNCHANGED pr_ret
    /\ UNCHANGED <<pr_popen, pr_started, process_frame>>

\* launch_success = launch_application(exe_path, log_fn); if not
\* launch_success: log, return False; otherwise log and sleep
LaunchApplication ==
    /\ pr_pc = "launch"
    /\ LET r == launch_application(pr_env)
       IN /\ pr_popen' = pr_popen + r.popen
          /\ pr_started' = pr_started + r.started
          /\ IF r.ok
             THEN /\ pr_log' = pr_log \o r.log \o << "Waiting for application to start..." >>
                  /\ pr_pc' = "wait"
                  /\ UNCHANGED pr_ret
             ELSE /\ pr_log' = pr_log \o r.log \o << "Failed to launch application" >>
                  /\ pr_ret' = << FALSE >>
                  /\ pr_pc' = "ret"
    /\ UNCHANGED process_frame

\* time.sleep(wait_after_launch_s); the window is looked for again and the
\* outcome is logged
WaitAfterLaunch ==
    /\ pr_pc = "wait"
    /\ pr_log' = IF pr_env.hwnd2
                 THEN Append(pr_log, "SUCCESS: Application launched and window detected")
                 ELSE pr_log \o << "WARNING: window not detected yet",
                                   "The application might need more time to start" >>
    /\ pr_ret' = << after_wait(pr_env.hwnd2) >>
    /\ pr_pc' = "ret"
    /\ UNCHANGED <<pr_popen, pr_started, process_frame>>

NextProcess == EnsureProcessRunning \/ LaunchApplication \/ WaitAfterLaunch

SpecProcess == InitProcess /\ [][NextProcess]_vars

(***************************************************************************)
(* config_loader.py and the startup checks of main.py: load_config at      *)
(* module level and validate_template_files in main(), which end the       *)
(* program when they fail; a configuration that passes both is the one the *)
(* GUI and every scan cycle run with.  config.yaml is a dict of sections;  *)
(* only the content of assets.templates and of detectors is looked into.   *)
(***************************************************************************)

\* the top-level keys load_config subscripts
RequiredSections ==
    { "assets", "tesseract", "window", "scan", "ocr", "templates",
      "automation", "debug", "detectors" }

\* detector specs as written in config.yaml
YamlCfgs ==
    { [kind |-> "ocr", token |-> << "A" >>, min_conf |-> 50],
      [kind |-> "image", template_key |-> "to_lobby", confidence |-> 80],
      [kind |-> "image", template_key |-> "no_such_key"],
      [kind |-> "video"],
      [kind |-> "ocr"],
      [token |-> << "A" >>] }

\* assets.templates: template key -> path or list of paths
YamlTemplates == [to_lobby |-> << "a.png" >>]

\* detector registries: every name the rules refer to or only some of them
YamlRegistries ==
    { [n \in K |-> IF n = "TO_LOBBY_BUTTON" THEN c
                   ELSE [kind |-> "ocr", token |-> << "A" >>]] :
          K \in { RuleDetectorNames, {"TO_LOBBY_BUTTON", "END_RUN_BUTTON"},
                  {"TO_LOBBY_BUTTON"} },
          c \in YamlCfgs }

\* config.yaml with every section, or with one section missing
YamlData ==
    { [k \in K |-> IF k = "assets" THEN [templates |-> YamlTemplates]
                   ELSE IF k = "detectors" THEN reg
                   ELSE << >>] :
          K \in { RequiredSections } \cup { RequiredSections \ {x} : x \in RequiredSections },
          reg \in YamlRegistries }

\* detector = detector_cfg.copy(); an image spec whose template_key is in
\* template_paths_map gets paths and loses template_key
resolve_detector(cfg, template_paths_map) ==
    IF /\ "kind" \in DOMAIN cfg
       /\ cfg.kind = "image"
       /\ "template_key" \in DOMAIN cfg
       /\ cfg.template_key \in DOMAIN template_paths_map
    THEN [k \in (DOMAIN cfg \ {"template_key"}) \cup {"paths"} |->
              IF k = "paths" THEN template_paths_map[cfg.template_key] ELSE cfg[k]]
    ELSE cfg

\* load_config(): a missing key raises KeyError, re-raised as ValueError;
\* otherwise the Config with the detectors dict and the template paths map
load_config(data) ==
    IF ~(RequiredSections \subseteq DOMAIN data)
    THEN [raised |-> "ValueError"]
    ELSE LET template_paths_map == data["assets"].templates
             detectors == [n \in DOMAIN data["detectors"] |->
                              resolve_detector(data["detectors"][n], template_paths_map)]
         IN [raised |-> "",
             config |-> [detectors |-> detectors,
                         template_paths_map |-> template_paths_map]]

\* detector_cfg.get("paths", [])
cfg_paths(cfg) == IF "paths" \in DOMAIN cfg THEN cfg.paths ELSE << >>

\* validate_template_files(config): the (detector, path) pairs of image
\* detectors whose path does not exist
validate_template_files(config, fs) ==
    UNION { { << n, cfg_paths(config.detectors[n])[k] >> :
                  k \in { j \in 1..Len(cfg_paths(config.detectors[n])) :
                              cfg_paths(config.detectors[n])[j] \notin fs } } :
            n \in { m \in DOMAIN config.detectors :
                        /\ "kind" \in DOMAIN config.detectors[m]
                        /\ config.detectors[m].kind = "image" } }

InitLoad ==
    /\ ld_data \in YamlData
    /\ ld_files \in SUBSET {"a.png"}
    /\ ld_pc = "load"
    /\ CONFIG = << >>
    /\ DetectIdle
    /\ ResolveIdle
    /\ BatchIdle
    /\ BankIdle
    /\ WindowIdle
    /\ ThreadsIdle
    /\ ProcessIdle
    /\ CycleIdle

\* what the startup steps leave alone
load_frame == <<ld_data, ld_files, detect_vars, resolve_vars, app_vars,
                batch_vars, bank_vars, window_vars, thread_vars, process_vars,
                cycle_vars, loop_vars>>

\* module level: try: CONFIG = load_config() except: print, sys.exit(1)
LoadConfig ==
    /\ ld_pc = "load"
    /\ LET r == load_config(ld_data)
       IN IF r.raised # ""
          THEN /\ ld_pc' = "rejected"
               /\ UNCHANGED CONFIG
          ELSE /\ CONFIG' = r.config
               /\ ld_pc' = "validate"
    /\ UNCHANGED load_frame

\* main(): missing_files = validate_template_files(CONFIG); if missing_files:
\* print, sys.exit(1); otherwise the GUI is started with CONFIG
ValidateTemplates ==
    /\ ld_pc = "validate"
    /\ ld_pc' = IF validate_template_files(CONFIG, ld_files) # {}
                THEN "rejected" ELSE "accepted"
    /\ UNCHANGED <<CONFIG, load_frame>>

NextLoad == LoadConfig \/ ValidateTemplates

SpecLoad == InitLoad /\ [][NextLoad]_vars

(***************************************************************************)
(* main.py : App._scan_once past run_detectors (lines 803-995): the        *)
(* signals dict, resolve_state, the state display, the bookkeeping, the    *)
(* action handler, the debug output and the except clause, run by a        *)
(* scanning thread on the result map run_detectors returned.  Names are    *)
(* looked up as Python does: states.X in states.py, results[n] in the      *)
(* dict, and self._log as defined above.  The calls of time.time() within  *)
(* one cycle give the same second.  The user's clicks on the two server    *)
(* checkbuttons interleave freely.                                         *)
(***************************************************************************)
MaxCycles == 2

\* states.py: the names the module defines
states ==
    [STATE_UNKNOWN |-> STATE_UNKNOWN, STATE_IN_RUN |-> "IN_RUN",
     STATE_DEAD |-> STATE_DEAD, STATE_MENU |-> "MENU",
     STATE_LOADING |-> "LOADING"]

\* click_points.py
CLICK_POINTS == [AUTO_BUTTON |-> <<1150, 640>>]

\* debugging.py
DEBUG_SAVE_SCREENSHOTS == TRUE
DEBUG_SAVE_EVERY_SCAN == FALSE

\* the keys the signals dict subscripts results with
SignalNames ==
    { "AUTO_RED_ICON", "AUTO_GREEN_ICON", "END_RUN_BUTTON", "TO_LOBBY_BUTTON",
      "SWITCH_FISH_ICON", "LEAVE_BUTTON", "DISCONNECTED_ICON",
      "HOME_SCREEN_ICON" }

\* the keys only the action handler subscripts results with
HandlerDetectorNames ==
    { "HOME_SCREEN_GAME_ICON", "QUICK_JOIN_ICON", "SERVERS_BUTTON", "MENU_ICON" }

\* CONFIG.detectors.keys(): every name the code refers to, or all but one
Registries ==
    { RuleDetectorNames \cup HandlerDetectorNames,
      (RuleDetectorNames \cup HandlerDetectorNames) \ {"DISCONNECTED_ICON"} }

\* st.win_rect
StWinRect == <<0, 0, 1280, 720>>

\* the detectors in the order the screen shows their elements, left to right
DetectorOrder ==
    << "TO_LOBBY_BUTTON", "END_RUN_BUTTON", "AUTO_GREEN_ICON", "AUTO_RED_ICON",
       "SWITCH_FISH_ICON", "LEAVE_BUTTON", "LEAVE_BUTTON_CONFIRM",
       "DISCONNECTED_ICON", "HOME_SCREEN_ICON", "HOME_SCREEN_GAME_ICON",
       "FISH_MENU_SCREEN", "FISH_MENU_SCROLLED_DOWN", "QUICK_JOIN_ICON",
       "SERVER_MENU", "SERVERS_BUTTON", "PRIVATE_SERVERS", "MENU_ICON" >>

\* the bbox (x, y, w, h) of detector n when it is found: each element has its
\* own place
FoundBBox(n) ==
    <<60 * (CHOOSE k \in 1..Len(DetectorOrder) : DetectorOrder[k] = n), 200, 40, 20>>

RECURSIVE SubsetsUpTo(_, _)
\* the subsets of S of at most k elements
SubsetsUpTo(S, k) ==
    IF k = 0 THEN {{}}
    ELSE LET P == SubsetsUpTo(S, k - 1)
         IN P \cup { A \cup {x} : A \in P, x \in S }

\* what run_detectors returns: one DetectResult per registry name, a found
\* one with its bbox, at most MaxFound of them found
CycleResults ==
    UNION { { [n \in K |-> IF n \in F
                           THEN [found |-> TRUE, bbox |-> <<FoundBBox(n)>>]
                           ELSE [found |-> FALSE, bbox |-> << >>]] :
              F \in SubsetsUpTo(K, MaxFound) } : K \in Registries }

\* bbox_center(bbox): (x + w // 2, y + h // 2)
bbox_center(bbox) == <<bbox[1] + (bbox[3] \div 2), bbox[2] + (bbox[4] \div 2)>>

\* outcomes of a piece of the try block: the click_point / scroll_view calls
\* made, the exception raised ("" if none), and self.last_click_time
Quiet(lct) == [actions |-> << >>, raised |-> "", last_click_time |-> lct]

Raises(e, lct) == [actions |-> << >>, raised |-> e, last_click_time |-> lct]

Calls(a, lct) == [actions |-> <<a>>, raised |-> "", last_click_time |-> lct]

\* self._log(...) followed by the rest of the branch; c.log_raises tells
\* whether the call raises
log_then(rest, c) ==
    IF c.log_raises THEN Raises("AttributeError", c.lct) ELSE rest

\* click_point(st.win_rect, pos, clicks=n)
click_point(pos, n) == [fn |-> "click_point", pos |-> pos, clicks |-> n]

\* scroll_view(st.win_rect, (center_x, center_y), direction=dir, clicks=3)
scroll_view(dir) ==
    [fn |-> "scroll_view",
     pos |-> <<(StWinRect[3] - StWinRect[1]) \div 2,
               (StWinRect[4] - StWinRect[2]) \div 2>>,
     direction |-> dir, clicks |-> 3]

\* if results[n].found and results[n].bbox:
\*     center = bbox_center(results[t].bbox); self._log(...); click_point(...)
click_found(c, n, t) ==
    IF n \notin DOMAIN c.res THEN Raises("KeyError", c.lct)
    ELSE IF ~(c.res[n].found /\ c.res[n].bbox # << >>) THEN Quiet(c.lct)
    ELSE IF t \notin DOMAIN c.res THEN Raises("KeyError", c.lct)
    ELSE IF c.res[t].bbox = << >> THEN Raises("TypeError", c.lct)
    ELSE log_then(Calls(click_point(bbox_center(c.res[t].bbox[1]), 1), c.lct),
                  c)

\* the branches of the action handler, in the order of the if / elif chain,
\* each named by the attribute of states it compares current_state with
handler_chain ==
    << "STATE_DEAD", "STATE_AUTO_STOPPED", "STATE_IN_RUN", "STATE_DISCONNECTED",
       "STATE_HOME_SCREEN", "STATE_FISH_MENU", "STATE_FISH_MENU_SCROLLED_DOWN",
       "STATE_STUCK_IN_LOBBY", "STATE_MENU", "STATE_LEAVE_MENU",
       "STATE_PRIVATE_SERVERS_MENU" >>

\* self.click_timer_ms default, and the dwell of STUCK_IN_LOBBY in seconds
click_timer_ms == 300000
stuck_dwell_s == 15

\* mutant: the click of STUCK_IN_LOBBY does not wait
dwell_elapsed_at_once(state_duration) == state_duration >= 0

\* if state_duration >= 15.0:
dwell_elapsed(state_duration) == state_duration >= stuck_dwell_s

\* the seconds at which cycles run: the start, and the seconds from one
\* before the dwell of STUCK_IN_LOBBY on
Clock == {0} \cup { stuck_dwell_s - 1 + k : k \in 0..MaxTime }

\* the body of one branch; c holds what the branch reads
branch_body(name, c) ==
    CASE name = "STATE_DEAD" -> click_found(c, "TO_LOBBY_BUTTON", "TO_LOBBY_BUTTON")
      [] name = "STATE_AUTO_STOPPED" ->
            log_then(Calls(click_point(CLICK_POINTS.AUTO_BUTTON, 1), c.lct), c)
      [] name = "STATE_IN_RUN" ->
            IF c.lct = 0 \/ (c.now - c.lct) * 1000 >= click_timer_ms
            THEN Calls(click_point(CLICK_POINTS.AUTO_BUTTON, 2), c.now)
            ELSE Quiet(c.lct)
      [] name = "STATE_DISCONNECTED" ->
            click_found(c, "DISCONNECTED_ICON", "DISCONNECTED_ICON")
      [] name = "STATE_HOME_SCREEN" ->
            click_found(c, "HOME_SCREEN_ICON", "HOME_SCREEN_GAME_ICON")
      [] name = "STATE_FISH_MENU" ->
            IF c.public THEN click_found(c, "QUICK_JOIN_ICON", "QUICK_JOIN_ICON")
            ELSE IF c.private
                 THEN log_then(Calls(scroll_view("down"), c.lct), c)
                 ELSE Quiet(c.lct)
      [] name = "STATE_FISH_MENU_SCROLLED_DOWN" ->
            IF c.public THEN log_then(Calls(scroll_view("up"), c.lct), c)
            ELSE IF c.private
                 THEN IF "SERVERS_BUTTON" \notin DOMAIN c.res
                      THEN Raises("KeyError", c.lct)
                      ELSE IF c.res["SERVERS_BUTTON"].found
                              /\ c.res["SERVERS_BUTTON"].bbox # << >>
                           THEN click_found(c, "SERVERS_BUTTON", "SERVERS_BUTTON")
                           ELSE log_then(Calls(scroll_view("down"), c.lct), c)
                 ELSE Quiet(c.lct)
      [] name = "STATE_STUCK_IN_LOBBY" ->
            IF dwell_elapsed(c.duration)
            THEN click_found(c, "MENU_ICON", "MENU_ICON")
            ELSE IF c.countdown THEN log_then(Quiet(c.lct), c)
                 ELSE Quiet(c.lct)
      [] name = "STATE_MENU" -> click_found(c, "LEAVE_BUTTON", "LEAVE_BUTTON")
      [] name = "STATE_LEAVE_MENU" ->
            click_found(c, "LEAVE_BUTTON_CONFIRM", "LEAVE_BUTTON_CONFIRM")
      [] name = "STATE_PRIVATE_SERVERS_MENU" ->
            log_then(Calls(click_point(<<(StWinRect[3] - StWinRect[1]) \div 2,
                                         (StWinRect[4] - StWinRect[2]) - 10>>, 1),
                           c.lct), c)

RECURSIVE action_handler(_, _)
\* if current_state == states.<chain[1]>: ... elif ...: ... else: ...
\* evaluated from branch i on; c.states is the namespace of module states,
\* and a name it lacks raises AttributeError
action_handler(i, c) ==
    IF i > Len(handler_chain)
    THEN IF c.lct # 0 THEN log_then(Quiet(0), c) ELSE Quiet(0)
    ELSE IF handler_chain[i] \notin DOMAIN c.states
         THEN Raises("AttributeError", c.lct)
         ELSE IF c.cur = c.states[handler_chain[i]]
              THEN branch_body(handler_chain[i], c)
              ELSE action_handler(i + 1, c)

\* the debug output after the handler: with DEBUG_SAVE_SCREENSHOTS and not
\* is_running the screenshots are saved and logged; a raising self._log
\* raises again in the inner except clause and leaves the block
debug_output(o, c, running) ==
    IF o.raised = "" /\ DEBUG_SAVE_SCREENSHOTS
       /\ (DEBUG_SAVE_EVERY_SCAN \/ ~running) /\ c.log_raises
    THEN [o EXCEPT !.raised = "AttributeError"]
    ELSE o

InitCycle ==
    /\ CycleIdle
    /\ is_running \in BOOLEAN
    /\ stop_event = FALSE
    /\ worker_thread = 0
    /\ th_pc = << >>
    /\ th_kind = << >>
    /\ th_hwnd = << >>
    /\ ui_last = << >>
    /\ stop_seen = {}
    /\ ProcessIdle
    /\ LoadIdle
    /\ DetectIdle
    /\ ResolveIdle
    /\ BatchIdle
    /\ BankIdle
    /\ WindowIdle

\* what the steps of the cycle leave alone
cycle_frame == <<rs_pc, rs_prev, detect_vars, batch_vars, bank_vars,
                 window_vars, thread_vars, process_vars, load_vars, loop_vars>>

\* results = run_detectors(...) has returned one of the maps of R, at some
\* second now
CycleBeginWith(R) ==
    /\ cy_pc \in {"idle", "returned", "raised"}
    /\ cy_n < MaxCycles
    /\ cy_n' = cy_n + 1
    /\ results' \in R
    /\ now' \in { t \in Clock : t >= now }
    /\ rs_ret' = ""
    /\ cy_actions' = << >>
    /\ cy_exc' = ""
    /\ cy_pc' = "signals"
    /\ UNCHANGED <<app_vars, current_state, public_server, private_server,
                   tk_writes, cycle_frame>>

CycleBegin == CycleBeginWith(CycleResults)

\* signals = { "has_auto_red": results["AUTO_RED_ICON"].found, ... }
BuildSignals ==
    /\ cy_pc = "signals"
    /\ IF SignalNames \subseteq DOMAIN results
       THEN /\ cy_pc' = "resolve"
            /\ UNCHANGED cy_exc
       ELSE /\ cy_pc' = "except"
            /\ cy_exc' = "KeyError"
    /\ UNCHANGED <<results, rs_ret, app_vars, cy_n, cy_actions, current_state,
                   public_server, private_server, tk_writes, now, cycle_frame>>

\* mutant: state_start_time is set in every cycle
ResolveState_always_reset ==
    /\ cy_pc = "resolve"
    /\ rs_ret' = resolve_state(results)
    /\ current_state' = rs_ret'
    /\ tk_writes' = tk_writes \cup {"current_state"}
    /\ last_state' = rs_ret'
    /\ state_start_time' = now
    /\ cy_pc' = "handler"
    /\ UNCHANGED <<results, last_click_time, cy_n, cy_actions, cy_exc,
                   public_server, private_server, now, cycle_frame>>

\* current_state = resolve_state(results); self.current_state.set(...), on
\* the scanning thread; then last_state and state_start_time
ResolveState ==
    /\ cy_pc = "resolve"
    /\ rs_ret' = resolve_state(results)
    /\ current_state' = rs_ret'
    /\ tk_writes' = tk_writes \cup {"current_state"}
    /\ IF rs_ret' # last_state
       THEN /\ last_state' = rs_ret'
            /\ state_start_time' = now
       ELSE UNCHANGED <<last_state, state_start_time>>
    /\ cy_pc' = "handler"
    /\ UNCHANGED <<results, last_click_time, cy_n, cy_actions, cy_exc,
                   public_server, private_server, now, cycle_frame>>

\* the action handler and the debug output, to the end of the try block;
\* a normal return discards the method's locals
ActionHandler ==
    /\ cy_pc = "handler"
    /\ \E countdown \in BOOLEAN :
          LET c == [res |-> results, cur |-> rs_ret, lct |-> last_click_time,
                    now |-> now, duration |-> now - state_start_time,
                    public |-> public_server, private |-> private_server,
                    countdown |-> countdown,
                    states |-> states, log_raises |-> log_raises]
              o == debug_output(action_handler(1, c), c, is_running)
          IN /\ cy_actions' = o.actions
             /\ last_click_time' = o.last_click_time
             /\ cy_exc' = o.raised
             /\ cy_pc' = IF o.raised = "" THEN "returned" ELSE "except"
             /\ results' = IF o.raised = "" THEN << >> ELSE results
    /\ UNCHANGED <<rs_ret, last_state, state_start_time, cy_n,
                   current_state, public_server, private_server, tk_writes, now,
                   cycle_frame>>

\* except Exception as e: self._log(f"[error] ..."): a raising self._log
\* lets the exception leave _scan_once; either way the method's locals go
CycleExcept ==
    /\ cy_pc = "except"
    /\ cy_pc' = IF log_raises THEN "raised" ELSE "returned"
    /\ results' = << >>
    /\ UNCHANGED <<rs_ret, app_vars, cy_n, cy_actions, cy_exc,
                   current_state, public_server, private_server, tk_writes, now,
                   cycle_frame>>

\* the user clicks the Public / Private checkbutton: the variable flips and
\* _on_public_toggle / _on_private_toggle clears the other one if it is set
ServerToggle ==
    /\ \E which \in {"public", "private"} :
          IF which = "public"
          THEN /\ public_server' = ~public_server
               /\ private_server' = IF public_server' THEN FALSE ELSE private_server
          ELSE /\ private_server' = ~private_server
               /\ public_server' = IF private_server' THEN FALSE ELSE public_server
    /\ UNCHANGED <<results, rs_ret, app_vars, cy_pc, cy_n, cy_actions, cy_exc,
                   current_state, tk_writes, now, cycle_frame>>

NextCycle ==
    \/ CycleBegin
    \/ BuildSignals
    \/ ResolveState
    \/ ActionHandler
    \/ CycleExcept
    \/ ServerToggle

SpecCycle == InitCycle /\ [][NextCycle]_vars

(***************************************************************************)
(* SpecHandler: the action handler of _scan_once in every environment.     *)
(* The handler depends on two things outside it: the names module states   *)
(* defines, and what self._log does.  As the source stands states lacks    *)
(* nine of the names the chain compares with and self._log raises, so that *)
(* no branch body after the first runs to its click.  Here each run of the *)
(* handler takes either states.py as it is or with those names bound to    *)
(* the labels of state_machine.py, and a self._log that raises or returns; *)
(* what holds here holds of the handler as it stands and of the handler    *)
(* with either dependency repaired.                                        *)
(***************************************************************************)
MaxExtra == 1

\* states.py with every name the chain uses, bound to the label of its rule
states_with_rule_labels ==
    [n \in DOMAIN states \cup { handler_chain[i] : i \in 1..Len(handler_chain) } |->
        IF n \in DOMAIN states THEN states[n]
        ELSE CHOOSE l \in Labels : "STATE_" \o l = n]

HandlerEnvs ==
    { [states |-> s, log_raises |-> l] :
          s \in {states, states_with_rule_labels}, l \in {log_raises, FALSE} }

\* result maps in which the detectors a rule requires are found, with up to
\* MaxExtra of the detectors only the handler reads
HandlerResults ==
    UNION { { [n \in K |-> IF n \in STATE_RULES[i].require_all \cup X
                           THEN [found |-> TRUE, bbox |-> <<FoundBBox(n)>>]
                           ELSE [found |-> FALSE, bbox |-> << >>]] :
              i \in { j \in 1..Len(STATE_RULES) : STATE_RULES[j].require_all \subseteq K },
              X \in SubsetsUpTo(HandlerDetectorNames, MaxExtra) } : K \in Registries }

HandlerBegin == CycleBeginWith(HandlerResults)

\* the action handler and the debug output in one environment, and the
\* except clause of _scan_once if they raise
ActionHandlerIn ==
    /\ cy_pc = "handler"
    /\ \E env \in HandlerEnvs, countdown \in BOOLEAN :
          LET c == [res |-> results, cur |-> rs_ret, lct |-> last_click_time,
                    now |-> now, duration |-> now - state_start_time,
                    public |-> public_server, private |-> private_server,
                    countdown |-> countdown,
                    states |-> env.states, log_raises |-> env.log_raises]
              o == debug_output(action_handler(1, c), c, is_running)
          IN /\ cy_actions' = o.actions
             /\ last_click_time' = o.last_click_time
             /\ cy_exc' = o.raised
             /\ cy_pc' = IF o.raised # "" /\ env.log_raises THEN "raised"
                         ELSE "returned"
    /\ results' = << >>
    /\ UNCHANGED <<rs_ret, last_state, state_start_time, cy_n,
                   current_state, public_server, private_server, tk_writes, now,
                   cycle_frame>>

NextHandler ==
    \/ HandlerBegin
    \/ BuildSignals
    \/ ResolveState
    \/ ActionHandlerIn
    \/ CycleExcept
    \/ ServerToggle

SpecHandler == InitCycle /\ [][NextHandler]_vars

(***************************************************************************)
(* SpecLoop: _scan_loop of one worker.  Times are in milliseconds.         *)
(* self._scan_once() is taken by its outcome: it raises, which ends the    *)
(* thread, or it returns after some time.  As the source stands every call *)
(* raises (self._log); a call that returns is what _scan_loop is written   *)
(* for, and what is checked here is checked for both outcomes.             *)
(***************************************************************************)
MaxLoops == 3
MaxDt == 4

\* CONFIG.min_sleep_s, as config.yaml gives it (load_config does not test
\* it), and refresh_ms (CONFIG.default_refresh_ms; no widget changes it)
LoopConfigs ==
    { [min_sleep |-> m, refresh_ms |-> r] : m \in {-1, 0, 1}, r \in {2, 3} }

\* mutant: the sleep is what is left of the target interval
sleep_s_no_floor(cfg, dt) == cfg.refresh_ms - dt

\* sleep_s = max(CONFIG.min_sleep_s, target - dt)
sleep_s(cfg, dt) ==
    IF cfg.min_sleep >= cfg.refresh_ms - dt THEN cfg.min_sleep
    ELSE cfg.refresh_ms - dt

InitLoop ==
    /\ lp_pc = "test"
    /\ lp_n = 0
    /\ lp_cfg \in LoopConfigs
    /\ lp_clock = 0
    /\ lp_t0 = 0
    /\ lp_dt = 0
    /\ lp_sleep = 0
    /\ ScanIdle
    /\ ThreadsIdle
    /\ ProcessIdle
    /\ LoadIdle
    /\ DetectIdle
    /\ ResolveIdle
    /\ BatchIdle
    /\ BankIdle
    /\ WindowIdle

\* what the steps of _scan_loop leave alone
loop_frame == <<resolve_vars, app_vars, detect_vars, batch_vars, bank_vars,
                window_vars, is_running, worker_thread, th_pc, th_kind, th_hwnd,
                ui_last, stop_seen, process_vars, load_vars, cycle_vars, lp_cfg>>

\* while not self._stop_event.is_set(): t0 = time.time(); after the loop
\* self._log("[run] stopped")
LpTest ==
    /\ lp_pc = "test"
    /\ IF stop_event
       THEN /\ lp_pc' = IF log_raises THEN "crashed" ELSE "done"
            /\ UNCHANGED <<lp_n, lp_t0>>
       ELSE /\ lp_n < MaxLoops
            /\ lp_n' = lp_n + 1
            /\ lp_t0' = lp_clock
            /\ lp_pc' = "scan"
    /\ UNCHANGED <<stop_event, lp_clock, lp_dt, lp_sleep, loop_frame>>

\* self._scan_once() raises and the exception ends the thread, or it returns
\* after d milliseconds; dt = time.time() - t0
LpScanOnce ==
    /\ lp_pc = "scan"
    /\ \E d \in 0..MaxDt, outcome \in {"raises", "returns"} :
          /\ lp_clock' = lp_clock + d
          /\ IF outcome = "raises"
             THEN /\ lp_pc' = "crashed"
                  /\ UNCHANGED lp_dt
             ELSE /\ lp_pc' = "sleep"
                  /\ lp_dt' = lp_clock' - lp_t0
    /\ UNCHANGED <<stop_event, lp_n, lp_t0, lp_sleep, loop_frame>>

\* target = self.refresh_ms.get() / 1000.0; sleep_s = max(...);
\* time.sleep(sleep_s): raises ValueError for a negative length, and returns
\* no earlier than after sleep_s otherwise
LpSleep ==
    /\ lp_pc = "sleep"
    /\ lp_sleep' = sleep_s(lp_cfg, lp_dt)
    /\ IF lp_sleep' < 0
       THEN /\ lp_pc' = "crashed"
            /\ UNCHANGED lp_clock
       ELSE /\ lp_pc' = "test"
            /\ \E late \in {0, 1} : lp_clock' = lp_clock + lp_sleep' + late
    /\ UNCHANGED <<stop_event, lp_n, lp_t0, lp_dt, loop_frame>>

\* stop() on the UI thread sets the event
LpStop ==
    /\ ~stop_event
    /\ stop_event' = TRUE
    /\ UNCHANGED <<loop_vars, loop_frame>>

NextLoop == LpTest \/ LpScanOnce \/ LpSleep \/ LpStop

SpecLoop == InitLoop /\ [][NextLoop]_vars

(***************************************************************************)
(* Properties of run_detector (SpecOcr, SpecImage)                         *)
(***************************************************************************)

\* token occurs in text when both are compared without regard to case
ContainsIgnoringCase(text, token) ==
    \E off \in 0..(Len(text) - Len(token)) :
        \A k \in 1..Len(token) : lower_char(text[off + k]) = lower_char(token[k])

\* positions of the hits an OCR detector accepts
QualifyingHits ==
    { i \in 1..Len(hits) :
          /\ hits[i].conf >= cfg_min_conf(det_cfg)
          /\ ContainsIgnoringCase(hits[i].text, det_cfg.token) }

\* the best qualifying hit: highest confidence, earliest position among equals
IsBestHit(i) ==
    /\ i \in QualifyingHits
    /\ \A j \in QualifyingHits :
           /\ hits[j].conf <= hits[i].conf
           /\ (hits[j].conf = hits[i].conf => i <= j)

\* C9: an OCR detector returns found=true with the bbox, text and conf of
\* the highest-confidence qualifying hit (earliest among equal confidences),
\* and found=false without bbox, text or conf when no hit qualifies.
C9_OcrBestHit ==
    (det_pc = "ret" /\ det_cfg.kind = "ocr") =>
        /\ det_out.raised = ""
        /\ det_out.result.name = det_name
        /\ det_out.result.kind = "ocr"
        /\ IF QualifyingHits = {}
           THEN /\ det_out.result.found = FALSE
                /\ DOMAIN det_out.result = {"name", "kind", "found"}
           ELSE \E i \in 1..Len(hits) :
                    /\ IsBestHit(i)
                    /\ det_out.result.found = TRUE
                    /\ det_out.result.bbox = hits[i].bbox
                    /\ det_out.result.text = hits[i].text
                    /\ det_out.result.conf = hits[i].conf

C9_Witness ==
    /\ det_pc = "ret"
    /\ det_cfg.kind = "ocr"
    /\ Len(hits) = 2
    /\ QualifyingHits = {1, 2}
    /\ hits[1].conf < hits[2].conf
    /\ hits[1].bbox # hits[2].bbox
    /\ det_out.result.found
    /\ det_out.result.bbox = hits[2].bbox

\* candidate paths of an image detector
CandidatePaths ==
    IF "paths" \in DOMAIN det_cfg THEN det_cfg.paths ELSE << det_cfg.path >>

\* the winning candidate: highest score, earliest position among equals
IsBestCandidate(i) ==
    /\ i \in 1..Len(CandidatePaths)
    /\ \A j \in 1..Len(CandidatePaths) :
           /\ frame[CandidatePaths[j]].score <= frame[CandidatePaths[i]].score
           /\ (frame[CandidatePaths[j]].score = frame[CandidatePaths[i]].score
                   => i <= j)

WellFormed(cfg) ==
    /\ "kind" \in DOMAIN cfg
    /\ \/ cfg.kind = "ocr" /\ "token" \in DOMAIN cfg
       \/ /\ cfg.kind = "image"
          /\ \/ "paths" \in DOMAIN cfg /\ cfg.paths # << >>
             \/ "path" \in DOMAIN cfg

\* the candidate templates of an image spec
CandidateSet(cfg) ==
    IF "paths" \in DOMAIN cfg /\ cfg.paths # << >>
    THEN { cfg.paths[k] : k \in 1..Len(cfg.paths) }
    ELSE { cfg.path }

\* an image spec one of whose candidates cannot be read or makes the
\* matching backend raise
TemplateFails(cfg) ==
    /\ WellFormed(cfg)
    /\ cfg.kind = "image"
    /\ \E p \in CandidateSet(cfg) :
          files[p] = << >> \/ "error" \in DOMAIN frame[p]

\* the batch has ended: returned or left by an exception
BatchEnded == rd_pc \in {"ret", "raised"}

\* the result entry of a failed detector: found = false, error note in extra
IsErrorResult(r) ==
    /\ ~r.found
    /\ "extra" \in DOMAIN r
    /\ "error" \in DOMAIN r.extra

\* C11 as stated: no internal failure of a detector, a malformed or
\* unknown-kind spec included, aborts the batch; the batch always returns,
\* with found = false and an error note for each failed detector.
C11_Original_NoFailureAborts ==
    BatchEnded =>
        /\ rd_pc = "ret"
        /\ \A k \in 1..Len(detector_names) :
              LET name == detector_names[k]
              IN /\ name \in DOMAIN out
                 /\ (~WellFormed(detectors_dict[name])
                        \/ TemplateFails(detectors_dict[name]))
                      => IsErrorResult(out[name])

\* C11: a template that cannot be read or a matching exception does not abort
\* the batch: that detector's result is found = false with an error note and
\* every other detector has the result it has when run alone; the batch is
\* aborted exactly at the first malformed or unknown-kind spec, by KeyError or
\* ValueError.
C11_TemplateFailureIsolated ==
    /\ rd_pc = "ret" =>
          \A k \in 1..Len(detector_names) :
              LET name == detector_names[k]
                  cfg == detectors_dict[name]
              IN /\ WellFormed(cfg)
                 /\ name \in DOMAIN out
                 /\ TemplateFails(cfg) => IsErrorResult(out[name])
                 /\ ~TemplateFails(cfg) =>
                        out[name] = run_detector(name, cfg, hits, frame,
                                                 << >>, files).result
    /\ rd_pc = "raised" =>
          /\ rd_exc \in {"KeyError", "ValueError"}
          /\ ~WellFormed(detectors_dict[detector_names[rd_i]])
          /\ \A k \in 1..(rd_i - 1) : WellFormed(detectors_dict[detector_names[k]])
    /\ (\A k \in 1..Len(detector_names) : WellFormed(detectors_dict[detector_names[k]]))
          => rd_pc # "raised"

\* the batch returned although one detector's template failed, and another
\* detector was found
C11_Witness ==
    /\ rd_pc = "ret"
    /\ \E a, b \in DOMAIN out :
          /\ TemplateFails(detectors_dict[a])
          /\ IsErrorResult(out[a])
          /\ out[b].found

\* C12: the map run_detectors returns, which _scan_once passes to
\* resolve_state, has exactly the registry's names as keys, one DetectResult
\* per name, each made by this call's single run of that name's detector.
C12_OneResultPerDetector ==
    rd_pc = "ret" =>
        /\ DOMAIN out = DOMAIN detectors_dict
        /\ rd_i = Len(detector_names) + 1
        /\ \A name \in DOMAIN out :
              /\ out[name].name = name
              /\ out[name].kind = detectors_dict[name].kind
              /\ out[name].found \in BOOLEAN

\* a returned map with several detectors, found and not found
C12_Witness ==
    /\ rd_pc = "ret"
    /\ Cardinality(DOMAIN out) >= 2
    /\ \E a, b \in DOMAIN out : out[a].found /\ ~out[b].found

(***************************************************************************)
(* Properties of TemplateBank (SpecBank, SpecBankThreads)                  *)
(***************************************************************************)

\* C13: between two clear() calls, however often get(p) is called, p is
\* decoded once and every call returns the one cached object; after clear()
\* the next get(p) decodes again and caches the new object.
C13_DecodeOncePerClear ==
    \A path \in BatchPaths :
        /\ decodes[path] <= 1
        /\ Cardinality(returned[path]) <= 1
        /\ gets[path] >= 1 =>
              /\ decodes[path] = 1
              /\ path \in DOMAIN cache
              /\ returned[path] = { cache[path] }
        /\ path \in DOMAIN cache => decodes[path] = 1

\* a path decoded before a clear(), then fetched twice after it with a
\* single further decode
C13_Witness ==
    \E path \in BatchPaths :
        /\ gets[path] = 2
        /\ decodes[path] = 1
        /\ attempts[path] = 2
        /\ cache[path].obj = 2

\* C14: a get(p) whose decode fails raises the file-unreadable error and
\* leaves the cache as it was, without an entry for p; the next get(p) reads
\* the file again.
C14_FailedDecodeNotCached ==
    [][ /\ calls' = calls + 1 /\ bk_last'.op = "get"
          /\ bk_last'.raised
            => /\ cache' = cache
               /\ bk_last'.path \notin DOMAIN cache'
               /\ bk_last'.read
               /\ files[bk_last'.path] = << >>
        /\ (/\ calls' = calls + 1 /\ bk_last'.op = "get"
            /\ bk_last # << >> /\ bk_last.op = "get" /\ bk_last.raised
            /\ bk_last'.path = bk_last.path)
            => /\ attempts'[bk_last.path] = attempts[bk_last.path] + 1
               /\ bk_last'.raised <=> files[bk_last.path] = << >>
      ]_vars

\* a failed get(p) followed, once the file is readable, by a get(p) that
\* decodes and caches it, another path's entry being kept throughout
C14_Witness ==
    \E path \in BatchPaths :
        /\ attempts[path] = 2
        /\ decodes[path] = 1
        /\ gets[path] = 1
        /\ path \in DOMAIN cache
        /\ Cardinality(DOMAIN cache) = 2
        /\ calls = 3

\* C15 as stated: whatever clear() calls other threads make while a get(p)
\* is in flight, the get never fails with a missing-key error and what it
\* returns is a decoded image.
C15_Original_ClearIsSafe ==
    \A t \in DOMAIN bk_pc :
        /\ bk_pc[t] = "raised" => bk_ret[t] # "KeyError"
        /\ bk_pc[t] = "ret" => Len(bk_ret[t]) = 1 /\ "obj" \in DOMAIN bk_ret[t][1]

(***************************************************************************)
(* Properties of ensure_window (SpecWindow)                                *)
(***************************************************************************)

\* the five conditions of a compliant window, on the desktop itself
Compliant(w) ==
    LET mon == monitors[ew_cfg.monitor_index]
        cx == w.rect[1] + ((w.rect[3] - w.rect[1]) \div 2)
        cy == w.rect[2] + ((w.rect[4] - w.rect[2]) \div 2)
        cw == (w.rect[3] - w.rect[1]) - w.border[1]
        ch == (w.rect[4] - w.rect[2]) - w.border[2]
    IN /\ w.present
       /\ w.fg
       /\ ~looks_fullscreen_like(w, mon)
       /\ mon[1] <= cx /\ cx < mon[3] /\ mon[2] <= cy /\ cy < mon[4]
       /\ ~window_looks_spanning_monitors(w, monitors)
       /\ cw \in (ew_cfg.target_client_w - ew_cfg.size_tolerance_px)
                   ..(ew_cfg.target_client_w + ew_cfg.size_tolerance_px)
       /\ ch \in (ew_cfg.target_client_h - ew_cfg.size_tolerance_px)
                   ..(ew_cfg.target_client_h + ew_cfg.size_tolerance_px)

\* C16 as stated: the second of two consecutive invocations performs no
\* corrective operation.
C16_Original_SecondCallIdle ==
    Len(ew_hist) >= 2 => ew_hist[2].ops = << >>

\* C16: when the first invocation leaves the window compliant, the second of
\* two consecutive invocations performs no corrective operation, leaves the
\* window as it is and returns the same status.
C16_SecondCallIdleOnceCompliant ==
    (Len(ew_hist) >= 2 /\ ~ew_hist[1].raised /\ Compliant(ew_hist[1].after)) =>
        /\ ew_hist[2].ops = << >>
        /\ ew_hist[2].after = ew_hist[1].after
        /\ ew_hist[2].ret = ew_hist[1].ret

\* a first invocation that had to move and resize the window and left it
\* compliant, followed by a second one
C16_Witness ==
    /\ Len(ew_hist) = 2
    /\ ~ew_hist[1].raised
    /\ Compliant(ew_hist[1].after)
    /\ Len(ew_hist[1].ops) >= 2

\* C17: an invocation that finds the window compliant issues no activation,
\* no Alt+Enter and no SetWindowPos, leaves the window where and as it is,
\* and returns its status.
C17_CompliantUntouched ==
    \A k \in 1..Len(ew_hist) :
        Compliant(ew_hist[k].before) =>
            /\ ew_hist[k].ops = << >>
            /\ ew_hist[k].after = ew_hist[k].before
            /\ ~ew_hist[k].raised
            /\ ew_hist[k].ret =
                   << get_window_status(ew_hist[k].before, monitors, ew_cfg) >>

\* the very first invocation finds a compliant window whose client size is
\* at the tolerance
C17_Witness ==
    /\ Len(ew_hist) >= 1
    /\ Compliant(ew_hist[1].before)
    /\ ew_hist[1].ret # << >>
    /\ ew_hist[1].ret[1].client_size = << 1282, 722 >>

\* C18 as stated: when the window is found, ensure_window returns a status
\* whatever corrective operation fails; it returns None only when the window
\* is not found.
C18_Original_FailuresNotFatal ==
    \A k \in 1..Len(ew_hist) :
        /\ ~ew_hist[k].raised
        /\ ew_hist[k].ret = << >> <=> ~ew_hist[k].before.present

(***************************************************************************)
(* Properties of start / stop / _scan_loop (SpecThreads)                   *)
(***************************************************************************)

\* C19 as stated: at every moment at most one thread is executing
\* _scan_loop, whatever the sequence and timing of start() and stop().
C19_Original_OneWorker ==
    Cardinality(Alive) <= 1

\* C20 as stated: a worker that was running when stop() was issued starts no
\* further cycle, whatever commands follow the stop.
C20_Original_NoCycleAfterStop ==
    [][ \A w \in stop_seen :
            th_pc[w] # "scan" => th_pc'[w] # "scan" ]_vars

(***************************************************************************)
(* Properties of the scanning threads, continued (SpecThreads)             *)
(***************************************************************************)

\* a UI callback has run
UiCalled == DOMAIN ui_last # {}

\* C21 (as stated): no thread started by single_scan is inside _scan_once
\* while a thread of the continuous loop is inside _scan_once, and
\* single_scan is only ever issued while is_running is false.
C21_Original_NoConcurrentScan ==
    /\ \A s, w \in InScanOnce : ~(th_kind[s] = "single" /\ th_kind[w] = "loop")
    /\ (UiCalled /\ ui_last.call = "single_scan") => ~ui_last.before.is_running

\* C23 (as stated): an exception raised inside a cycle is handled inside
\* _scan_once: the thread that entered the except handler leaves _scan_once
\* normally and is never ended by the exception.
C23_Original_ErrorConfined ==
    [][ \A w \in 1..Len(th_pc) :
            th_pc[w] = "handler" => th_pc'[w] # "crashed" ]_vars

\* C24 (as stated): a cycle of the loop in which the target window was not
\* found is skipped and the worker goes on to its next loop test (it retries
\* on the next interval).
C24_Original_AbsentCycleSkipped ==
    [][ \A w \in 1..Len(th_pc) :
            ( /\ th_kind[w] = "loop"
              /\ th_hwnd[w] = "none"
              /\ w \in InScanOnce
              /\ th_pc'[w] \notin {"scan", "handler"} )
            => th_pc'[w] = "test" ]_vars

\* C27: start() issued while is_running is true, and stop() issued while it
\* is false, change nothing: no thread is made, the stop event, is_running
\* and _worker_thread are as before.
C27_RedundantCallsAreNoOps ==
    UiCalled =>
        /\ (ui_last.call = "start" /\ ui_last.before.is_running)
               => ui_last.after = ui_last.before
        /\ (ui_last.call = "stop" /\ ~ui_last.before.is_running)
               => ui_last.after = ui_last.before

\* start() was issued while a worker of the loop was alive and running
C27_Witness ==
    /\ UiCalled
    /\ ui_last.call = "start"
    /\ ui_last.before.is_running
    /\ Alive # {}

(***************************************************************************)
(* Properties of ensure_window, continued (SpecWindow)                     *)
(***************************************************************************)

\* the target monitor of the invocation
TargetMonitor == monitors[ew_cfg.monitor_index]

\* width and height of a rectangle
RectW(r) == r[3] - r[1]

RectH(r) == r[4] - r[2]

\* the operations issued up to the end of the step being taken
OpsAfterStep == IF ew_pc' = "idle" THEN ew_hist'[Len(ew_hist')].ops ELSE ew_cur'.ops

\* the step being taken issues the operation op last
StepIssues(op) ==
    /\ Len(OpsAfterStep) > Len(ew_cur.ops)
    /\ OpsAfterStep[Len(OpsAfterStep)] = op

\* the window covers at least pct hundredths of the target monitor's width
\* and of its height
CoversAtLeast(pct) ==
    /\ 100 * RectW(win.rect) >= pct * RectW(TargetMonitor)
    /\ 100 * RectH(win.rect) >= pct * RectH(TargetMonitor)

\* the window covers more than pct hundredths of both
CoversMoreThan(pct) ==
    /\ 100 * RectW(win.rect) > pct * RectW(TargetMonitor)
    /\ 100 * RectH(win.rect) > pct * RectH(TargetMonitor)

\* C29 (as stated): in the fullscreen step the Alt+Enter toggle is attempted
\* exactly for a window covering at least 95% of the target monitor's width
\* and at least 95% of its height, exactly 95% included.
C29_Original_ToggleFrom95 ==
    [][ ew_pc = "step2" => (StepIssues("alt_enter") <=> CoversAtLeast(95)) ]_vars

\* C29 (amended): the window is classified fullscreen-like exactly when it
\* covers strictly more than 95% of the target monitor's width and strictly
\* more than 95% of its height; the Alt+Enter gesture is sent exactly for a
\* window so classified while try_alt_enter_to_escape_fullscreen is set, and
\* a window covering 95% or less in either dimension gets no toggle.
C29_ToggleAbove95 ==
    [][ ew_pc = "step2" =>
          /\ get_window_status(win, monitors, ew_cfg).looks_fullscreen_like
                 <=> CoversMoreThan(95)
          /\ StepIssues("alt_enter")
                 <=> (CoversMoreThan(95) /\ ew_cfg.try_alt_enter_to_escape_fullscreen)
      ]_vars

\* a window covering exactly 95% of the target monitor in both dimensions
\* has passed the fullscreen step without a toggle
C29_Witness ==
    /\ ew_pc = "step3"
    /\ 100 * RectW(win.rect) = 95 * RectW(TargetMonitor)
    /\ 100 * RectH(win.rect) = 95 * RectH(TargetMonitor)
    /\ \A k \in 1..Len(ew_cur.ops) : ew_cur.ops[k] # "alt_enter"

\* area of the part of the window on monitor i
Overlap(i) ==
    LET l == max2(win.rect[1], monitors[i][1])
        r == min2(win.rect[3], monitors[i][3])
        t == max2(win.rect[2], monitors[i][2])
        b == min2(win.rect[4], monitors[i][4])
    IN IF r > l /\ b > t THEN (r - l) * (b - t) ELSE 0

\* the centre of the window is outside the target monitor
CentreOutside ==
    LET cx == win.rect[1] + (RectW(win.rect) \div 2)
        cy == win.rect[2] + (RectH(win.rect) \div 2)
    IN ~( /\ TargetMonitor[1] <= cx /\ cx < TargetMonitor[3]
          /\ TargetMonitor[2] <= cy /\ cy < TargetMonitor[4] )

\* the second-largest monitor overlap exceeds 15% of the largest
SecondOverlapExceeds15 ==
    \E i, j \in 1..Len(monitors) :
        /\ i # j
        /\ \A k \in 1..Len(monitors) : Overlap(i) >= Overlap(k)
        /\ \A k \in (1..Len(monitors)) \ {i} : Overlap(j) >= Overlap(k)
        /\ 100 * Overlap(j) > 15 * Overlap(i)

\* the window at the target monitor's origin plus padding, size kept
RepositionedRect ==
    << TargetMonitor[1] + ew_cfg.pad_left, TargetMonitor[2] + ew_cfg.pad_top,
       TargetMonitor[1] + ew_cfg.pad_left + RectW(win.rect),
       TargetMonitor[2] + ew_cfg.pad_top + RectH(win.rect) >>

\* C30: the move step issues the reposition exactly when the window's centre
\* is outside the target monitor or its second-largest monitor overlap
\* exceeds 15% of its largest; the step never changes the window's size, and
\* a reposition the desktop carries out puts the window at the target
\* monitor's origin plus padding.
C30_RepositionExactlyWhenOff ==
    [][ ew_pc = "step3" =>
          /\ StepIssues("move") <=> (CentreOutside \/ SecondOverlapExceeds15)
          /\ RectW(win'.rect) = RectW(win.rect)
          /\ RectH(win'.rect) = RectH(win.rect)
          /\ win'.rect \in {win.rect, RepositionedRect}
          /\ ~StepIssues("move") => win' = win
      ]_vars

\* a window that was centred on the other monitor has been moved to the
\* padded origin of the target monitor
C30_Witness ==
    /\ ew_pc = "step4"
    /\ ew_cur.before.rect = << 2000, 100, 3296, 859 >>
    /\ win.rect = << 40, 40, 1336, 799 >>
    /\ ew_cur.ops[Len(ew_cur.ops)] = "move"

\* the client size of the window: the outer size less borders and title bar
ClientW == RectW(win.rect) - win.border[1]

ClientH == RectH(win.rect) - win.border[2]

\* the client width or height is off the target by more than the tolerance
ClientOffTarget ==
    \/ ClientW > ew_cfg.target_client_w + ew_cfg.size_tolerance_px
    \/ ClientW < ew_cfg.target_client_w - ew_cfg.size_tolerance_px
    \/ ClientH > ew_cfg.target_client_h + ew_cfg.size_tolerance_px
    \/ ClientH < ew_cfg.target_client_h - ew_cfg.size_tolerance_px

\* C31: the resize step issues the resize exactly when the client width or
\* the client height differs from the target by more than size_tolerance_px;
\* with both differences within the tolerance, the boundary included, the
\* step issues nothing and leaves the window as it is.
C31_ResizeExactlyBeyondTolerance ==
    [][ ew_pc = "step4" =>
          /\ StepIssues("resize") <=> ClientOffTarget
          /\ ~ClientOffTarget => win' = win
      ]_vars

\* a window one pixel beyond the tolerance in width has been resized to the
\* target client size
C31_Witness ==
    /\ ew_pc = "final"
    /\ ew_cur.before.rect = << 40, 40, 1339, 799 >>
    /\ ew_cur.ops[Len(ew_cur.ops)] = "resize"
    /\ ClientW = ew_cfg.target_client_w
    /\ ClientH = ew_cfg.target_client_h

\* the operations of an invocation whose steps come in the order activate,
\* toggle (activation, then Alt+Enter), move, resize, each at most once
OrderedOps ==
    { a \o t \o m \o r :
        a \in {<< >>, <<"activate">>},
        t \in {<< >>, <<"activate", "alt_enter">>},
        m \in {<< >>, <<"move">>},
        r \in {<< >>, <<"resize">>} }

\* what each step's guard says of the window as it is when the step is taken
GuardNow ==
    CASE ew_pc = "step1" -> ~win.fg
      [] ew_pc = "step2" -> CoversMoreThan(95)
      [] ew_pc = "step3" -> CentreOutside \/ SecondOverlapExceeds15
      [] ew_pc = "step4" -> ClientOffTarget
      [] OTHER -> FALSE

\* the status of the window as it is
StatusNow ==
    [win_rect |-> win.rect,
     client_size |-> << ClientW, ClientH >>,
     is_foreground |-> win.fg,
     is_on_target_monitor |-> ~CentreOutside,
     looks_spanning_monitors |-> SecondOverlapExceeds15,
     looks_fullscreen_like |-> CoversMoreThan(95)]

\* a corrective step issues its operation only if its guard holds of the
\* window as it is, and issues it then (the toggle step: if configured to)
StepFollowsGuard ==
    ew_pc \in {"step1", "step2", "step3", "step4"} =>
        /\ Len(OpsAfterStep) > Len(ew_cur.ops) => GuardNow
        /\ (GuardNow /\ ew_pc # "step2") => Len(OpsAfterStep) > Len(ew_cur.ops)

\* the last step returns the status of the window as it is and touches nothing
ReturnsStatusNow ==
    ew_pc = "final" =>
        /\ ew_pc' = "idle"
        /\ win' = win
        /\ ew_hist'[Len(ew_hist')].ret = << StatusNow >>

LaunchSucceeds == pr_env.exists /\ pr_env.is_file /\ pr_env.popen = "ok"

\* launching is not attempted, or is attempted and fails
CannotLaunch ==
    \/ ~pr_args.launch_enabled
    \/ pr_args.exe_path \in { << >>, << "" >> }
    \/ ~LaunchSucceeds

\* C28: ensure_process_running returns True without launching when a window
\* with the title exists; when none exists it returns False without having
\* started anything if launching is disabled, no executable path is
\* configured or the launch fails; otherwise it has started the executable
\* exactly once and returns True whether or not the window has appeared.
C28_EnsureProcessRunning ==
    pr_pc = "ret" =>
        /\ pr_env.hwnd => (pr_ret = << TRUE >> /\ pr_popen = 0)
        /\ (~pr_env.hwnd /\ CannotLaunch) => (pr_ret = << FALSE >> /\ pr_started = 0)
        /\ (~pr_env.hwnd /\ ~CannotLaunch)
               => (pr_ret = << TRUE >> /\ pr_started = 1 /\ pr_popen = 1)

\* the executable was launched and the window had not appeared after the wait
C28_Witness ==
    /\ pr_pc = "ret"
    /\ ~pr_env.hwnd
    /\ ~pr_env.hwnd2
    /\ pr_started = 1
    /\ pr_ret = << TRUE >>

(***************************************************************************)
(* Properties of the startup (SpecLoad)                                    *)
(***************************************************************************)

\* the loaded configuration is malformed: a rule refers to a detector that
\* is not in the registry, or a detector spec cannot be dispatched
Malformed(config) ==
    \/ ~(RuleDetectorNames \subseteq DOMAIN config.detectors)
    \/ \E n \in DOMAIN config.detectors : ~WellFormed(config.detectors[n])

\* C26 (as stated): a malformed configuration is detected by the startup
\* checks and ends the program; no configuration that passes them, and that
\* the scan cycles then run with, is malformed.
C26_Original_MalformedIsFatal ==
    ld_pc = "accepted" => ~Malformed(CONFIG)

(***************************************************************************)
(* Properties of the scan cycle past run_detectors (SpecCycle)             *)
(***************************************************************************)

EndedResolved ==
    /\ cy_pc \in {"returned", "raised"}
    /\ rs_ret \notin {"", STATE_UNKNOWN}

C39_ShadowedStatesNeverReturned ==
    rs_pc = "ret" =>
        /\ rs_ret \notin {RULE_GAME_CLOSED.state, RULE_MENU_CONFIRMATION.state}
        /\ RuleHolds(RULE_GAME_CLOSED, results)
               => RuleHolds(RULE_NET_REVEAL, results)
        /\ RuleHolds(RULE_MENU_CONFIRMATION, results)
               => RuleHolds(RULE_LEAVE_MENU, results)

\* resolve_state has returned on a map in which GAME_CLOSED's conditions
\* hold, and the result is NET_REVEAL
C39_Witness ==
    /\ rs_pc = "ret"
    /\ RuleHolds(RULE_GAME_CLOSED, results)
    /\ rs_ret = RULE_NET_REVEAL.state

\* the states whose rule is evaluated after NET_REVEAL
AfterNetReveal ==
    { RULE_PRIVATE_SERVERS_MENU.state, RULE_FISH_MENU_SCROLLED_DOWN.state,
      RULE_STUCK_IN_LOBBY.state, RULE_LEAVE_MENU.state }

\* the priority of the rule that declares a state
PriorityOf(state) ==
    LET i == CHOOSE k \in 1..Len(STATE_RULES) : STATE_RULES[k].state = state
    IN STATE_RULES[i].priority

\* C40: a result among PRIVATE_SERVERS_MENU, FISH_MENU_SCROLLED_DOWN,
\* STUCK_IN_LOBBY, LEAVE_MENU and UNKNOWN means END_RUN_BUTTON or
\* AUTO_GREEN_ICON is found and TO_LOBBY_BUTTON is not; on a map where none of
\* the three is found the result is a state of priority at least
\* NET_REVEAL's (50) other than PRIVATE_SERVERS_MENU.
C40_NetRevealShadowsLowerRules ==
    rs_pc = "ret" =>
        /\ rs_ret \in AfterNetReveal \cup {STATE_UNKNOWN} =>
              /\ {"END_RUN_BUTTON", "AUTO_GREEN_ICON"} \cap FoundNames(results) # {}
              /\ "TO_LOBBY_BUTTON" \notin FoundNames(results)
        /\ RULE_NET_REVEAL.require_none \cap FoundNames(results) = {} =>
              /\ rs_ret \notin {STATE_UNKNOWN, RULE_PRIVATE_SERVERS_MENU.state}
              /\ PriorityOf(rs_ret) >= RULE_NET_REVEAL.priority

\* resolve_state has returned NET_REVEAL on a map in which PRIVATE_SERVERS
\* is found and none of the three names NET_REVEAL excludes is
C40_Witness ==
    /\ rs_pc = "ret"
    /\ RuleHolds(RULE_PRIVATE_SERVERS_MENU, results)
    /\ RULE_NET_REVEAL.require_none \cap FoundNames(results) = {}
    /\ rs_ret = RULE_NET_REVEAL.state

(***************************************************************************)
(* Properties of the cycle's bookkeeping and timers (SpecCycle)            *)
(***************************************************************************)

\* the cycle in progress, or the last one, has resolved a state
Resolved == cy_pc \in {"handler", "except", "returned", "raised"} /\ rs_ret # ""

\* the step in which the cycle resolves its state
ResolveStep == cy_pc = "resolve" /\ cy_pc' = "handler"

\* in that step last_state becomes the resolved state; state_start_time
\* becomes the current time if the state differs from the previous one and is
\* left alone otherwise
ResetExactlyOnChange ==
    ResolveStep =>
        /\ last_state' = rs_ret'
        /\ rs_ret' # last_state => state_start_time' = now
        /\ rs_ret' = last_state => state_start_time' = state_start_time

\* no other step of a cycle writes last_state or state_start_time
OnlyResolveWrites ==
    ~ResolveStep => UNCHANGED <<last_state, state_start_time>>

\* C33: the dwell timer is reset exactly in the cycles whose resolved state
\* differs from the previous resolved state; after a cycle has resolved a
\* state last_state is that state, and state_start_time is unchanged when
\* the state is the previous one.
C33_DwellResetExactlyOnChange ==
    /\ [][ResetExactlyOnChange]_vars
    /\ [][OnlyResolveWrites]_vars
    /\ [](Resolved => last_state = rs_ret)

\* a second cycle has resolved the state of the first one a second later and
\* state_start_time is still the time of the first
C33_Witness ==
    /\ cy_n = 2
    /\ cy_pc = "handler"
    /\ rs_ret = RULE_STUCK_IN_LOBBY.state
    /\ last_state = rs_ret
    /\ state_start_time = 0
    /\ now = stuck_dwell_s

\* the step in which the action handler runs
HandlerStep == cy_pc = "handler" /\ cy_pc' # "handler"

\* state_duration of the cycle in progress
StateDuration == now - state_start_time

\* a click_point call for state STUCK_IN_LOBBY has been made in this cycle
StuckClick ==
    /\ rs_ret = RULE_STUCK_IN_LOBBY.state
    /\ \E k \in 1..Len(cy_actions) : cy_actions[k].fn = "click_point"

\* C34: in state STUCK_IN_LOBBY a click is dispatched only in a cycle where
\* the state has lasted at least 15 seconds, and it is the click on the
\* centre of the menu icon; before that no click is dispatched.
C34_StuckClickOnlyAfterDwell ==
    /\ [](StuckClick =>
            /\ StateDuration >= stuck_dwell_s
            /\ cy_actions =
                  <<click_point(bbox_center(FoundBBox("MENU_ICON")), 1)>>)
    /\ [](rs_ret = RULE_STUCK_IN_LOBBY.state /\ StateDuration < stuck_dwell_s
            => cy_actions = << >>)

\* the menu icon is clicked in the cycle in which STUCK_IN_LOBBY has lasted
\* 15 seconds exactly
C34_Witness ==
    /\ StuckClick
    /\ cy_pc = "returned"
    /\ last_state = rs_ret
    /\ StateDuration = stuck_dwell_s

\* the AUTO_BUTTON double-click of the IN_RUN branch
InRunClick == <<click_point(CLICK_POINTS.AUTO_BUTTON, 2)>>

\* self.click_timer_ms has elapsed since the previous click
TimerElapsed == (now - last_click_time) * 1000 >= click_timer_ms

\* the handler step of a cycle that resolved IN_RUN: with last_click_time 0
\* it issues the double-click; it issues it otherwise only when the timer has
\* elapsed
InRunClicksFirstAndOnTimer ==
    HandlerStep /\ rs_ret = states.STATE_IN_RUN =>
        /\ last_click_time = 0 => cy_actions' = InRunClick
        /\ cy_actions' # << >> =>
              /\ cy_actions' = InRunClick
              /\ last_click_time = 0 \/ TimerElapsed

ResetOutsideInRun ==
    HandlerStep =>
        /\ rs_ret # states.STATE_IN_RUN => last_click_time' = 0
        /\ rs_ret = states.STATE_IN_RUN /\ last_click_time = 0
              => cy_actions' = InRunClick

GuardedDetector ==
    [DEAD |-> "TO_LOBBY_BUTTON", DISCONNECTED |-> "DISCONNECTED_ICON",
     HOME_SCREEN |-> "HOME_SCREEN_ICON", FISH_MENU |-> "QUICK_JOIN_ICON",
     FISH_MENU_SCROLLED_DOWN |-> "SERVERS_BUTTON",
     STUCK_IN_LOBBY |-> "MENU_ICON", MENU |-> "LEAVE_BUTTON",
     LEAVE_MENU |-> "LEAVE_BUTTON_CONFIRM"]

BeginStep == lp_pc = "test" /\ lp_pc' = "scan"
SleepStep == lp_pc = "sleep" /\ lp_pc' = "test"

\* an iteration begins from the loop test only, and the worker comes back to
\* the loop test only by sleeping after a cycle that has returned
OneCycleAtATime ==
    /\ lp_pc' = "scan" /\ lp_pc # "scan" => lp_pc = "test"
    /\ lp_pc' = "sleep" /\ lp_pc # "sleep" => lp_pc = "scan"
    /\ lp_pc' = "test" /\ lp_pc # "test" => lp_pc = "sleep"

\* the sleep is the larger of min_sleep and what is left of the target
\* interval, and takes at least that long
SleepsTheFloor ==
    SleepStep =>
        /\ lp_sleep' >= lp_cfg.min_sleep
        /\ lp_sleep' >= lp_cfg.refresh_ms - lp_dt
        /\ lp_sleep' \in {lp_cfg.min_sleep, lp_cfg.refresh_ms - lp_dt}
        /\ lp_clock' >= lp_clock + lp_sleep'

\* a later iteration begins no earlier than the end of the previous cycle
\* plus its sleep
BeginsAfterSleep ==
    BeginStep /\ lp_n >= 1 =>
        /\ lp_clock >= lp_t0 + lp_dt + lp_sleep
        /\ lp_sleep >= lp_cfg.min_sleep

\* C37: within one loop worker cycles never overlap or queue: the next cycle
\* starts only after the previous one has finished and the worker has slept
\* max(min_sleep, target - elapsed), which is never less than min_sleep, also
\* when the cycle took longer than the target interval.
C37_NextCycleAfterSleep ==
    /\ [][OneCycleAtATime]_vars
    /\ [][SleepsTheFloor]_vars
    /\ [][BeginsAfterSleep]_vars

\* a second cycle has begun after one that took longer than the target
\* interval and after a sleep of min_sleep
C37_Witness ==
    /\ lp_pc = "scan"
    /\ lp_n = 2
    /\ lp_cfg.min_sleep = 1
    /\ lp_dt > lp_cfg.refresh_ms
    /\ lp_sleep = lp_cfg.min_sleep
    /\ lp_t0 = lp_clock

====
